---- MODULE Spec2Model ----
(***************************************************************************)
(* Exponential backoff with capping and jitter                             *)
(* (mateothegreat/rxjs-exponential-backoff).                               *)
(*                                                                         *)
(* The calculator works on JavaScript numbers (IEEE-754 doubles).  A       *)
(* number is modelled as a record                                          *)
(*     [k |-> "fin", n |-> n, d |-> d, e |-> e]   the value (n/d) * 2^e,   *)
(*     [k |-> "inf"], [k |-> "ninf"], [k |-> "nan"]  +Infinity, -Infinity, *)
(*                                                   NaN                   *)
(* with n and d odd and coprime (n = 0 is written 0/1 * 2^0), so that two  *)
(* numbers are equal exactly when their records are.  Arithmetic on finite *)
(* numbers is exact and a result of magnitude 2^1024 or more overflows to  *)
(* an infinity, as a double does; the rounding of the last mantissa bit is *)
(* not modelled.                                                           *)
(***************************************************************************)
EXTENDS Integers, Sequences, FiniteSets, TLC

(***************************************************************************)
(* Integer helpers.                                                        *)
(***************************************************************************)
AbsInt(i) == IF i < 0 THEN -i ELSE i

MinInt(i, j) == IF i < j THEN i ELSE j

MaxInt(i, j) == IF i > j THEN i ELSE j

SignInt(i) == IF i < 0 THEN -1 ELSE IF i > 0 THEN 1 ELSE 0

RECURSIVE Pow2(_)
Pow2(k) == IF k <= 0 THEN 1 ELSE 2 * Pow2(k - 1)

RECURSIVE GCD(_, _)
GCD(a, b) == IF b = 0 THEN a ELSE GCD(b, a % b)

\* The sign of a * 2^k - b, for naturals a, b below 2^30 and k >= 0.
CmpShift(a, k, b) ==
    LET p == Pow2(MinInt(k, 30))
        q == b \div p
        r == b % p
    IN  IF a > q THEN 1
        ELSE IF a < q THEN -1
        ELSE IF r = 0 THEN 0 ELSE -1

(***************************************************************************)
(* Numbers.                                                                *)
(***************************************************************************)
NaN == [k |-> "nan", n |-> 0, d |-> 1, e |-> 0]

PosInf == [k |-> "inf", n |-> 0, d |-> 1, e |-> 0]

NegInf == [k |-> "ninf", n |-> 0, d |-> 1, e |-> 0]

Zero == [k |-> "fin", n |-> 0, d |-> 1, e |-> 0]

IsFinite(x) == x.k = "fin"

IsNaN(x) == x.k = "nan"

RECURSIVE StripTwos(_, _, _)
\* (n/d) * 2^e with the factors of two of n and d moved into e; n # 0.
StripTwos(n, d, e) ==
    IF n % 2 = 0 THEN StripTwos(n \div 2, d, e + 1)
    ELSE IF d % 2 = 0 THEN StripTwos(n, d \div 2, e - 1)
    ELSE [k |-> "fin", n |-> n, d |-> d, e |-> e]

\* The finite number (n/d) * 2^e, d > 0, in its normal form.
Norm(n, d, e) ==
    IF n = 0 THEN Zero
    ELSE LET g == GCD(AbsInt(n), d)
         IN  StripTwos(n \div g, d \div g, e)

Num(i) == Norm(i, 1, 0)

Rat(n, d) == Norm(n, d, 0)

\* The exponent of two at and above which a double is infinite.
DoubleMaxExp == 1024

\* A finite exact value as the double it is stored as.
Overflow(x) ==
    IF ~IsFinite(x) \/ x.n = 0 THEN x
    ELSE LET big == IF x.e >= DoubleMaxExp
                    THEN CmpShift(AbsInt(x.n), x.e - DoubleMaxExp, x.d) >= 0
                    ELSE CmpShift(x.d, DoubleMaxExp - x.e, AbsInt(x.n)) <= 0
         IN  IF ~big THEN x ELSE IF x.n > 0 THEN PosInf ELSE NegInf

\* -1, 0 or 1; an infinity has the sign of its side.  Not for NaN.
Sign(x) ==
    CASE x.k = "inf" -> 1
      [] x.k = "ninf" -> -1
      [] OTHER -> SignInt(x.n)

\* The sign of a - b for finite a and b.
CmpFin(a, b) ==
    IF Sign(a) # Sign(b) THEN SignInt(Sign(a) - Sign(b))
    ELSE IF Sign(a) = 0 THEN 0
    ELSE LET ma == AbsInt(a.n) * b.d
             mb == AbsInt(b.n) * a.d
             c  == IF a.e >= b.e THEN CmpShift(ma, a.e - b.e, mb)
                   ELSE -CmpShift(mb, b.e - a.e, ma)
         IN  Sign(a) * c

\* The sign of a - b for numbers other than NaN.
Cmp(a, b) ==
    CASE a.k = b.k /\ a.k # "fin" -> 0
      [] a.k = "inf" \/ b.k = "ninf" -> 1
      [] a.k = "ninf" \/ b.k = "inf" -> -1
      [] OTHER -> CmpFin(a, b)

\* JavaScript's comparisons: every comparison with NaN is false.
Gt(a, b) == ~IsNaN(a) /\ ~IsNaN(b) /\ Cmp(a, b) > 0

Ge(a, b) == ~IsNaN(a) /\ ~IsNaN(b) /\ Cmp(a, b) >= 0

Lt(a, b) == Gt(b, a)

Le(a, b) == Ge(b, a)

\* The exact product and sum of finite numbers (no overflow).
RealMul(a, b) == Norm(a.n * b.n, a.d * b.d, a.e + b.e)

RealAdd(a, b) ==
    IF a.n = 0 THEN b
    ELSE IF b.n = 0 THEN a
    ELSE LET e == MinInt(a.e, b.e)
         IN  Norm(a.n * b.d * Pow2(a.e - e) + b.n * a.d * Pow2(b.e - e), a.d * b.d, e)

Neg(x) ==
    CASE x.k = "inf" -> NegInf
      [] x.k = "ninf" -> PosInf
      [] x.k = "nan" -> NaN
      [] OTHER -> [x EXCEPT !.n = -x.n]

\* a * b
Mul(a, b) ==
    IF IsNaN(a) \/ IsNaN(b) THEN NaN
    ELSE IF IsFinite(a) /\ IsFinite(b) THEN Overflow(RealMul(a, b))
    ELSE IF Sign(a) * Sign(b) = 0 THEN NaN
    ELSE IF Sign(a) * Sign(b) > 0 THEN PosInf ELSE NegInf

\* a + b
Add(a, b) ==
    IF IsNaN(a) \/ IsNaN(b) THEN NaN
    ELSE IF IsFinite(a) /\ IsFinite(b) THEN Overflow(RealAdd(a, b))
    ELSE IF ~IsFinite(a) /\ ~IsFinite(b) /\ a # b THEN NaN
    ELSE IF ~IsFinite(a) THEN a ELSE b

\* a - b
Sub(a, b) == Add(a, Neg(b))

\* Math.max(a, b), Math.min(a, b): NaN when either argument is NaN.
MathMax(a, b) ==
    IF IsNaN(a) \/ IsNaN(b) THEN NaN ELSE IF Cmp(a, b) >= 0 THEN a ELSE b

MathMin(a, b) ==
    IF IsNaN(a) \/ IsNaN(b) THEN NaN ELSE IF Cmp(a, b) <= 0 THEN a ELSE b

\* Math.abs(x)
MathAbs(x) ==
    CASE x.k = "nan" -> NaN
      [] x.k \in {"inf", "ninf"} -> PosInf
      [] OTHER -> [x EXCEPT !.n = AbsInt(x.n)]

\* Whether the finite number x is an integer.
IsInteger(x) == IsFinite(x) /\ x.d = 1 /\ x.e >= 0

\* The integer value of a finite integer (of magnitude below 2^30).
IntOf(x) == x.n * Pow2(x.e)

\* Math.floor(x): NaN and the infinities are returned as they are.
MathFloor(x) ==
    IF ~IsFinite(x) THEN x
    ELSE IF x.e >= 0 THEN Num((x.n * Pow2(x.e)) \div x.d)
    ELSE Num(x.n \div (x.d * Pow2(-x.e)))

\* Math.round(x): the nearest integer, a half going up.
MathRound(x) == IF ~IsFinite(x) THEN x ELSE MathFloor(Add(x, [k |-> "fin", n |-> 1, d |-> 1, e |-> -1]))

\* The first k decimals of r / d (0 <= r < d), to the last that is not 0.
RECURSIVE DecimalDigits(_, _, _)

DecimalDigits(r, d, k) ==
    IF r = 0 \/ k = 0 THEN ""
    ELSE ToString((10 * r) \div d) \o DecimalDigits((10 * r) % d, d, k - 1)

\* `${x}`, the string of a number: NaN, Infinity, -Infinity, or the sign
\* and the decimal digits, for the numbers below 2^31 in absolute value
\* that are written without an exponent.  An integer has no decimal point
\* (-0 is "0"); a fraction is written with its decimals, the first six of
\* them when they do not end.
NumberToString(x) ==
    CASE x.k = "nan" -> "NaN"
      [] x.k = "inf" -> "Infinity"
      [] x.k = "ninf" -> "-Infinity"
      [] OTHER ->
           LET num == AbsInt(x.n) * (IF x.e > 0 THEN Pow2(x.e) ELSE 1)
               den == x.d * (IF x.e < 0 THEN Pow2(-x.e) ELSE 1)
           IN  (IF x.n < 0 THEN "-" ELSE "")
                   \o ToString(num \div den)
                   \o (IF num % den = 0 THEN ""
                       ELSE "." \o DecimalDigits(num % den, den, 6))

\* Math.pow(2, x) for an integer or infinite exponent x >= 0, or NaN.
MathPow2(x) ==
    CASE x.k = "nan" -> NaN
      [] x.k = "inf" -> PosInf
      [] x.k = "ninf" -> Zero
      [] OTHER -> Overflow([k |-> "fin", n |-> 1, d |-> 1, e |-> IntOf(x)])

(***************************************************************************)
(* BackoffOptions: each field is a number or is missing (undefined).       *)
(***************************************************************************)
Undefined == [k |-> "undefined", n |-> 0, d |-> 1, e |-> 0]

\* Mutant: `||` for `??`, the default replaces 0 too.
OrDefault_Falsy(v, default) ==
    IF v = Undefined \/ v = [k |-> "fin", n |-> 0, d |-> 1, e |-> 0] THEN default ELSE v

\* A parameter default (= 1000) or `??`: the default replaces undefined only.
OrDefault(v, default) == IF v = Undefined THEN default ELSE v

DefaultBaseDelayMs == Num(1000)

DefaultMaxDelayMs == Num(5000)

DefaultJitterFactor == Rat(1, 5)

(***************************************************************************)
(* BackoffResult.                                                          *)
(***************************************************************************)
\* Mutant: the delay is kept at 1 ms or more.
ClampDelay_AtLeastOne(delayMs) == MathMax([k |-> "fin", n |-> 1, d |-> 1, e |-> 0], delayMs)

\* this.delayMs = Math.max(0, delayMs)
ClampDelay(delayMs) == MathMax(Zero, delayMs)

\* Mutant: >= for >.
WasCapped_Ge(rawDelayMs, cappedDelayMs) == Ge(rawDelayMs, cappedDelayMs)

\* this.wasCapped = rawDelayMs > cappedDelayMs
WasCapped(rawDelayMs, cappedDelayMs) == Gt(rawDelayMs, cappedDelayMs)

\* new BackoffResult(delayMs, rawDelayMs, cappedDelayMs, jitterOffsetMs, retryAttempt)
BackoffResult(delayMs, rawDelayMs, cappedDelayMs, jitterOffsetMs, retryAttempt) ==
    [delayMs        |-> ClampDelay(delayMs),
     rawDelayMs     |-> rawDelayMs,
     cappedDelayMs  |-> cappedDelayMs,
     jitterOffsetMs |-> jitterOffsetMs,
     wasCapped      |-> WasCapped(rawDelayMs, cappedDelayMs),
     retryAttempt   |-> retryAttempt]

\* Mutant: the offset is written as it is, not rounded.
JitterText_NotRounded(jitterOffsetMs) ==
    (IF Ge(jitterOffsetMs, Zero) THEN "+" ELSE "") \o NumberToString(jitterOffsetMs)

\* const sign = this.jitterOffsetMs >= 0 ? "+" : "";
\* `${sign}${Math.round(this.jitterOffsetMs)}`
JitterText(jitterOffsetMs) ==
    (IF Ge(jitterOffsetMs, Zero) THEN "+" ELSE "")
        \o NumberToString(MathRound(jitterOffsetMs))

\* Mutant: ", capped" is written when the raw delay is at the cap or above.
CappedText_AtCap(result) ==
    IF Ge(result.rawDelayMs, result.cappedDelayMs) THEN ", capped" ELSE ""

\* if (this.wasCapped) result += ", capped";
CappedText(result) == IF result.wasCapped THEN ", capped" ELSE ""

\* BackoffResult.toString()
BackoffResultToString(result) ==
    "Retry " \o NumberToString(result.retryAttempt) \o ": "
        \o NumberToString(result.delayMs) \o "ms (raw: "
        \o NumberToString(result.rawDelayMs) \o "ms"
        \o CappedText(result)
        \o (IF result.jitterOffsetMs # Zero
            THEN ", jitter: " \o JitterText(result.jitterOffsetMs) \o "ms"
            ELSE ", no jitter")
        \o ")"

(***************************************************************************)
(* calculateExponentialBackoff.                                            *)
(***************************************************************************)
\* Mutant: the floor at 1 is left out.
NormalizeAttempt_FloorOnly(retryAttempt) == MathFloor(retryAttempt)

\* Mutant: Math.round for Math.floor.
NormalizeAttempt_Round(retryAttempt) ==
    MathMax(Num(1), MathFloor(Add(retryAttempt, Rat(1, 2))))

\* const normalizedAttempt = Math.max(1, Math.floor(retryAttempt))
NormalizeAttempt(retryAttempt) == MathMax(Num(1), MathFloor(retryAttempt))

\* Mutant: the exponent is the attempt, not the attempt less one.
RawDelay_NoMinusOne(baseDelayMs, normalizedAttempt) ==
    Mul(baseDelayMs, MathPow2(normalizedAttempt))

\* const rawDelayMs = baseDelayMs * Math.pow(2, normalizedAttempt - 1)
RawDelay(baseDelayMs, normalizedAttempt) ==
    Mul(baseDelayMs, MathPow2(Sub(normalizedAttempt, Num(1))))

\* Mutant: the cap is left out.
CappedDelay_NoCap(rawDelayMs, maxDelayMs) == rawDelayMs

\* const cappedDelayMs = Math.min(rawDelayMs, maxDelayMs)
CappedDelay(rawDelayMs, maxDelayMs) == MathMin(rawDelayMs, maxDelayMs)

\* Mutant: if (jitterFactor), true of every number but 0 and NaN.
JitterEnabled_Truthy(jitterFactor) == ~IsNaN(jitterFactor) /\ jitterFactor # Zero

\* if (jitterFactor > 0)
JitterEnabled(jitterFactor) == Gt(jitterFactor, Zero)

\* const jitterRangeMs = cappedDelayMs * Math.abs(jitterFactor)
JitterRange(cappedDelayMs, jitterFactor) == Mul(cappedDelayMs, MathAbs(jitterFactor))

\* Mutant: the draw is not centred, (Math.random() * 2) * jitterRangeMs.
JitterOffset_NotCentred(random, jitterRangeMs) ==
    Mul(Mul(random, Num(2)), jitterRangeMs)

\* jitterOffsetMs = (Math.random() * 2 - 1) * jitterRangeMs
JitterOffset(random, jitterRangeMs) ==
    Mul(Sub(Mul(random, Num(2)), Num(1)), jitterRangeMs)

\* finalDelayMs = Math.max(0, cappedDelayMs + jitterOffsetMs)
JitteredDelay(cappedDelayMs, jitterOffsetMs) ==
    MathMax(Zero, Add(cappedDelayMs, jitterOffsetMs))

\* The fields of options after the parameter defaults.
BaseDelayMsOf(options) == OrDefault(options.baseDelayMs, DefaultBaseDelayMs)

MaxDelayMsOf(options) == OrDefault(options.maxDelayMs, DefaultMaxDelayMs)

\* Mutant: jitterFactor || 0.2, which replaces 0 as well as undefined.
JitterFactorOf_Falsy(options) ==
    IF options.jitterFactor \in {Undefined, Zero}
    THEN DefaultJitterFactor ELSE options.jitterFactor

JitterFactorOf(options) == OrDefault(options.jitterFactor, DefaultJitterFactor)

\* The errors a call can raise.
NoError == "none"

\* Mutant: the arguments are validated and a bad one is rejected.
ThrownError_Validated(retryAttempt, options) ==
    IF \/ ~Ge(retryAttempt, Num(1))
       \/ Lt(MaxDelayMsOf(options), BaseDelayMsOf(options))
       \/ ~(Ge(JitterFactorOf(options), Zero) /\ Le(JitterFactorOf(options), Num(1)))
    THEN "RangeError" ELSE NoError

\* The function has no throw statement and no operation that raises on
\* numbers (Math.floor, Math.max, Math.pow, Math.min, Math.abs, *, +, >):
\* every path runs to the return.
ThrownError(retryAttempt, options) == NoError

\* One call.  random is the value Math.random() returns if it is called.
\* The record holds what the call returns (result) and what it did on the
\* way: finalDelayMs as handed to the constructor, the number of calls of
\* Math.random(), the value drawn (Undefined when none was) and the error
\* raised (NoError when the call returned).
CalculateExponentialBackoff(retryAttempt, options, random) ==
    LET baseDelayMs       == BaseDelayMsOf(options)
        maxDelayMs        == MaxDelayMsOf(options)
        jitterFactor      == JitterFactorOf(options)
        normalizedAttempt == NormalizeAttempt(retryAttempt)
        rawDelayMs        == RawDelay(baseDelayMs, normalizedAttempt)
        cappedDelayMs     == CappedDelay(rawDelayMs, maxDelayMs)
        jitter            == JitterEnabled(jitterFactor)
        jitterOffsetMs    == IF jitter
                             THEN JitterOffset(random, JitterRange(cappedDelayMs, jitterFactor))
                             ELSE Zero
        finalDelayMs      == IF jitter
                             THEN JitteredDelay(cappedDelayMs, jitterOffsetMs)
                             ELSE cappedDelayMs
    IN  [made         |-> TRUE,
         error        |-> ThrownError(retryAttempt, options),
         result       |-> BackoffResult(finalDelayMs, rawDelayMs, cappedDelayMs,
                                        jitterOffsetMs, normalizedAttempt),
         finalDelayMs |-> finalDelayMs,
         randomCalls  |-> IF jitter THEN 1 ELSE 0,
         random       |-> IF jitter THEN random ELSE Undefined]

\* No call made yet.
NoCall ==
    [made         |-> FALSE,
     error        |-> NoError,
     result       |-> BackoffResult(Zero, Zero, Zero, Zero, Zero),
     finalDelayMs |-> Zero,
     randomCalls  |-> 0,
     random       |-> Undefined]

(***************************************************************************)
(* Inputs.                                                                 *)
(***************************************************************************)
\* Attempts run over the halves from -1 to MaxAttempt + 1/2.
MaxAttempt == 4

\* Math.random() returns one of 0, 1/RandomSteps, ..., (RandomSteps-1)/RandomSteps.
RandomSteps == 3

LargeAttempts == {Num(20), Num(100), Num(1025)}

Attempts ==
    {Rat(h, 2) : h \in -2 .. 2 * MaxAttempt + 1}
        \cup LargeAttempts \cup {NaN, PosInf, NegInf}

RandomDraws == {Rat(i, RandomSteps) : i \in 0 .. RandomSteps - 1}

BaseDelays == {Undefined, Num(100), Zero, Num(-1000)}

MaxDelays == {Undefined, Num(50), Num(1000)}

JitterFactors == {Undefined, Zero, Rat(1, 4), Rat(3, 2), Rat(-1, 4)}

\* A negative maxDelayMs, with and without jitter.
NegativeMaxOptions ==
    [baseDelayMs : {Num(100)}, maxDelayMs : {Num(-50)}, jitterFactor : {Zero, Rat(1, 4)}]

\* The largest jitterFactor of the documented range: the offset can take
\* the whole delay away.
FullJitterOptions ==
    [baseDelayMs : {Num(100)}, maxDelayMs : {Num(50), Num(1000)}, jitterFactor : {Num(1)}]

OptionSets ==
    [baseDelayMs : BaseDelays, maxDelayMs : MaxDelays, jitterFactor : JitterFactors]
        \cup NegativeMaxOptions \cup FullJitterOptions

\* The calls other callers make in between.
OtherOptions ==
    {o \in OptionSets : o.baseDelayMs = Undefined /\ o.maxDelayMs = Undefined
                        /\ o.jitterFactor \in {Undefined, Zero}}

OtherAttempts == {Num(3)}

(***************************************************************************)
(* State.                                                                  *)
(*   options, retryAttempt  the arguments of the caller under observation  *)
(*   rng    the value the next call of Math.random() returns               *)
(*   last   the caller's latest call of calculateExponentialBackoff        *)
(*   saved  the caller's first call                                        *)
(*   order  what has happened so far: "none" no call, "first" the caller   *)
(*          has called, "between" another caller has called since,         *)
(*          "again" the caller has called again after that                 *)
(* and of a RetryManager (options being the argument of its constructor):  *)
(*   attemptCount  this._attemptCount                                      *)
(*   waits         the suspended invocations of waitForNextRetry, in the   *)
(*                 order they were made                                    *)
(*   returned      the invocation of waitForNextRetry that returned in the *)
(*                 latest step, if one did                                 *)
(*   preview       the call of previewNextDelay made in the latest step,   *)
(*                 if one was                                              *)
(*   sinceReset    the number of invocations of waitForNextRetry since     *)
(*                 the construction or the latest reset                    *)
(* and of a BackoffTimerFactory (options being the argument of its         *)
(* constructor) and one subscriber:                                        *)
(*   created       the observable the latest call of create returned       *)
(*   subscription  the subscription of the subscriber to it                *)
(*   received      the notifications the subscriber has received, in order *)
(*   earlier       the subscriptions to the observable that are over, in   *)
(*                 order: the delay of the timer each set and the          *)
(*                 notifications each received                             *)
(* and of a source piped through retry({ count, delay }), the delay being  *)
(* a function made by createBackoffDelayFunction(options), whose           *)
(* observables the retry operator subscribes to:                           *)
(*   retry         maxRetries as the caller gave it, the count given to    *)
(*                 retry, the source, the retries made so far, the         *)
(*                 subscriptions made to the source, and where the         *)
(*                 operator stands                                         *)
(*   delivered     the notifications delivered to the consumer, in order   *)
(* and of the configuration objects:                                       *)
(*   config        the object the constructor stored (this.options,        *)
(*                 this._options) and whose it is                          *)
(*   copies        the objects getOptions() and the options getter have    *)
(*                 returned to the caller, in order, each with what the    *)
(*                 caller's latest write to it came to                     *)
(* and of a caller of toString():                                          *)
(*   text          the BackoffResult of the latest call and the string     *)
(*                 returned                                                *)
(***************************************************************************)
VARIABLES options, retryAttempt, rng, last, saved, order,
          attemptCount, waits, returned, preview, sinceReset,
          created, subscription, received, earlier, retry, delivered,
          config, copies, text

calculatorVars == <<retryAttempt, last, saved, order>>

managerVars == <<attemptCount, waits, returned, preview, sinceReset>>

timerVars == <<created, subscription, received, earlier>>

retryVars == <<retry, delivered>>

configVars == <<config, copies>>

vars == <<options, rng, calculatorVars, managerVars, timerVars, retryVars, configVars,
          text>>

\* toString() was not called.
NoText == [made |-> FALSE]

\* No object stores a configuration.
NoConfig == [owner |-> "none"]

CalculatorInit ==
    /\ last = NoCall
    /\ saved = NoCall
    /\ order = "none"

Init ==
    /\ options \in OptionSets
    /\ retryAttempt \in Attempts
    /\ rng \in RandomDraws
    /\ CalculatorInit
    /\ attemptCount = 0
    /\ waits = <<>>
    /\ returned = [made |-> FALSE]
    /\ preview = [made |-> FALSE]
    /\ sinceReset = 0
    /\ created = [made |-> FALSE]
    /\ subscription = [state |-> "none"]
    /\ received = <<>>
    /\ earlier = <<>>
    /\ retry = [phase |-> "idle"]
    /\ delivered = <<>>
    /\ config = NoConfig
    /\ copies = <<>>
    /\ text = NoText

\* Math.random() was called c.randomCalls times: each call moves the generator on.
RandomAdvance(c) ==
    IF c.randomCalls > 0 THEN rng' \in RandomDraws ELSE rng' = rng

\* calculateExponentialBackoff(retryAttempt, options)
Calculate ==
    LET c == CalculateExponentialBackoff(retryAttempt, options, rng)
    IN  /\ last' = c
        /\ saved' = IF saved.made THEN saved ELSE c
        /\ order' = IF order \in {"between", "again"} THEN "again" ELSE "first"
        /\ RandomAdvance(c)
        /\ UNCHANGED <<options, configVars, text, retryAttempt, managerVars, timerVars, retryVars>>

\* Another caller's calculateExponentialBackoff(a, o); its result is its own.
CalculateOther ==
    \E a \in OtherAttempts, o \in OtherOptions :
        /\ order = "first"
        /\ order' = "between"
        /\ RandomAdvance(CalculateExponentialBackoff(a, o, rng))
        /\ UNCHANGED <<options, configVars, text, retryAttempt, last, saved, managerVars, timerVars, retryVars>>

Next == Calculate \/ CalculateOther

Spec == Init /\ [][Next]_vars

(***************************************************************************)
(* Timers.  setTimeout(f, ms) runs f once, no sooner than ms milliseconds  *)
(* after the call and possibly later; a delay that is not a finite number  *)
(* is not waited for.  A running timer is the record of its delay ms and   *)
(* of the time elapsed since it was set.                                   *)
(***************************************************************************)
TimerElapsed(ms, elapsed) == IF IsFinite(ms) THEN Ge(elapsed, ms) ELSE TRUE

\* The time left to the expiry of a timer (0 once it has expired).
TimerLeft(ms, elapsed) ==
    IF TimerElapsed(ms, elapsed) THEN Zero ELSE Sub(ms, elapsed)

\* The steps the clock makes for a running timer: to its expiry.
TimerSteps(ms, elapsed) == {d \in {TimerLeft(ms, elapsed)} : Gt(d, Zero)}

\* The time elapsed for a timer after a step d of the clock.  How long ago
\* a timer expired makes no difference to anything: it is kept as LateMs.
LateMs == Num(1)

TimerAfter(ms, elapsed, d) ==
    IF IsFinite(ms) /\ Gt(Add(elapsed, d), ms) THEN Add(ms, LateMs) ELSE Add(elapsed, d)

(***************************************************************************)
(* RetryManager.                                                           *)
(***************************************************************************)
\* The counter goes up to MaxCount between two resets.
MaxCount == 3

\* The invocations of waitForNextRetry suspended at one time.
MaxPending == 2

\* The arguments given to the constructor: without jitter, and with.
ManagerOptionSets ==
    {[baseDelayMs |-> Undefined, maxDelayMs |-> Num(1500), jitterFactor |-> Zero],
     [baseDelayMs |-> Num(100), maxDelayMs |-> Num(150), jitterFactor |-> Zero],
     [baseDelayMs |-> Num(100), maxDelayMs |-> Undefined, jitterFactor |-> Zero]}

ManagerJitterOptionSets ==
    {[baseDelayMs |-> Num(100), maxDelayMs |-> Num(150), jitterFactor |-> Rat(1, 4)],
     [baseDelayMs |-> Undefined, maxDelayMs |-> Undefined, jitterFactor |-> Undefined]}

\* this._options = { baseDelayMs: options.baseDelayMs ?? 1000, ... }
ManagerOptions(given) ==
    [baseDelayMs  |-> OrDefault(given.baseDelayMs, DefaultBaseDelayMs),
     maxDelayMs   |-> OrDefault(given.maxDelayMs, DefaultMaxDelayMs),
     jitterFactor |-> OrDefault(given.jitterFactor, DefaultJitterFactor)]

\* The object a RetryManager stores.
ManagerConfig(given) == [owner |-> "RetryManager", value |-> ManagerOptions(given)]

\* Mutant: the counter is doubled, 0 going to 1.
IncrementAttemptCount_Double(count) == IF count = 0 THEN 1 ELSE 2 * count

\* Mutant: the counter is incremented by the first call only.
IncrementAttemptCount_Once(count) == IF count = 0 THEN 1 ELSE count

\* this._attemptCount++
IncrementAttemptCount(count) == count + 1

\* Mutant: the preview is made for the current attempt.
PreviewAttempt_Current(count) == count

\* Mutant: the preview is made for the attempt after the next.
PreviewAttempt_AfterNext(count) == count + 2

\* this._attemptCount + 1
PreviewAttempt(count) == count + 1

\* Mutant: the timer is set for the delay before jitter.
TimeoutDelay_Capped(backoffResult) == backoffResult.cappedDelayMs

\* setTimeout(resolve, backoffResult.delayMs)
TimeoutDelay(backoffResult) == backoffResult.delayMs

\* this._attemptCount = 0
ResetAttemptCount(count) == 0

\* Mutant: the invocation that returns writes the counter it had set.
CountAfterReturn_Restored(count, wait) == wait.countAfter

\* this._attemptCount after the await: the code after it writes nothing.
CountAfterReturn(count, wait) == count

\* No invocation of waitForNextRetry returns.
NoReturn ==
    [made |-> FALSE, number |-> 0, backoffResult |-> NoCall.result,
     value |-> NoCall.result, waited |-> Zero]

\* No call of previewNextDelay.
NoPreview == [made |-> FALSE, countBefore |-> 0, countAfter |-> 0, call |-> NoCall]

\* private _attemptCount = 0, nothing called yet.
ManagerInit ==
    /\ attemptCount = 0
    /\ waits = <<>>
    /\ returned = NoReturn
    /\ preview = NoPreview
    /\ sinceReset = 0

\* No observable created, nothing subscribed.
NoObservable ==
    [made |-> FALSE, retryCount |-> Zero, call |-> NoCall,
     backoffResult |-> NoCall.result, emitDelay |-> FALSE, logged |-> <<>>]

NoSubscription ==
    [state |-> "none", cancelled |-> FALSE, completed |-> FALSE,
     timerRunning |-> FALSE, timerMs |-> Zero, elapsed |-> Zero,
     receivedAtCancel |-> 0]

TimerInit ==
    /\ created = NoObservable
    /\ subscription = NoSubscription
    /\ received = <<>>
    /\ earlier = <<>>

\* Nothing is piped through retry.
NoRetry ==
    [maxRetries |-> 0, count |-> 0, alwaysFails |-> FALSE, failures |-> 0,
     soFar |-> 0, subscriptions |-> 0, phase |-> "idle"]

RetryInit ==
    /\ retry = NoRetry
    /\ delivered = <<>>

\* new RetryManager(options), without jitter: Math.random() is never called.
ManagerSpecInit ==
    /\ options \in ManagerOptionSets
    /\ retryAttempt = Num(1)
    /\ rng = Zero
    /\ CalculatorInit
    /\ ManagerInit
    /\ TimerInit
    /\ RetryInit
    /\ config = ManagerConfig(options)
    /\ copies = <<>>
    /\ text = NoText

\* new RetryManager(options), with jitter.
ManagerJitterInit ==
    /\ options \in ManagerJitterOptionSets
    /\ retryAttempt = Num(1)
    /\ rng \in RandomDraws
    /\ CalculatorInit
    /\ ManagerInit
    /\ TimerInit
    /\ RetryInit
    /\ config = ManagerConfig(options)
    /\ copies = <<>>
    /\ text = NoText

\* waitForNextRetry(), up to the await: the counter is incremented, the
\* delay computed and the timer set.  The record keeps what the invocation
\* saw: the counter before and after, its number since the latest reset,
\* whether an earlier invocation was still suspended.
WaitForNextRetry ==
    LET count == IncrementAttemptCount(attemptCount)
        c     == CalculateExponentialBackoff(Num(count), config.value, rng)
    IN  /\ attemptCount < MaxCount
        /\ Len(waits) < MaxPending
        /\ attemptCount' = count
        /\ sinceReset' = sinceReset + 1
        /\ waits' = Append(waits,
               [call          |-> c,
                backoffResult |-> c.result,
                timeout       |-> TimeoutDelay(c.result),
                elapsed       |-> Zero,
                countBefore   |-> attemptCount,
                countAfter    |-> count,
                number        |-> sinceReset + 1,
                overlapped    |-> waits # <<>>])
        /\ RandomAdvance(c)
        /\ returned' = NoReturn
        /\ preview' = NoPreview
        /\ UNCHANGED <<options, configVars, text, calculatorVars, timerVars, retryVars>>

\* The sequence s without its i-th element.
Without(s, i) == [j \in 1 .. Len(s) - 1 |-> IF j < i THEN s[j] ELSE s[j + 1]]

\* The timer of the i-th suspended invocation runs resolve; the await ends
\* and the invocation returns backoffResult.
WaitReturns(i) ==
    /\ TimerElapsed(waits[i].timeout, waits[i].elapsed)
    /\ returned' = [made          |-> TRUE,
                    number        |-> waits[i].number,
                    backoffResult |-> waits[i].backoffResult,
                    value         |-> waits[i].backoffResult,
                    waited        |-> waits[i].elapsed]
    /\ waits' = Without(waits, i)
    /\ attemptCount' = CountAfterReturn(attemptCount, waits[i])
    /\ preview' = NoPreview
    /\ UNCHANGED <<options, configVars, text, rng, sinceReset, calculatorVars, timerVars, retryVars>>

\* previewNextDelay()
PreviewNextDelay ==
    LET c == CalculateExponentialBackoff(Num(PreviewAttempt(attemptCount)),
                                         config.value, rng)
    IN  /\ preview' = [made |-> TRUE, countBefore |-> attemptCount,
                       countAfter |-> attemptCount, call |-> c]
        /\ RandomAdvance(c)
        /\ returned' = NoReturn
        /\ UNCHANGED <<options, configVars, text, attemptCount, waits, sinceReset, calculatorVars, timerVars, retryVars>>

\* reset()
Reset ==
    /\ attemptCount' = ResetAttemptCount(attemptCount)
    /\ sinceReset' = 0
    /\ returned' = NoReturn
    /\ preview' = NoPreview
    /\ UNCHANGED <<options, configVars, text, rng, waits, calculatorVars, timerVars, retryVars>>

\* Time passes while invocations are suspended: by a step of one of the
\* running timers.
ManagerTimePasses ==
    \E i \in DOMAIN waits :
        \E d \in TimerSteps(waits[i].timeout, waits[i].elapsed) :
            /\ waits' = [j \in DOMAIN waits |->
                            [waits[j] EXCEPT !.elapsed =
                                TimerAfter(waits[j].timeout, waits[j].elapsed, d)]]
            /\ returned' = NoReturn
            /\ preview' = NoPreview
            /\ UNCHANGED <<options, configVars, text, rng, attemptCount, sinceReset, calculatorVars, timerVars, retryVars>>

ManagerNext ==
    \/ WaitForNextRetry
    \/ \E i \in DOMAIN waits : WaitReturns(i)
    \/ PreviewNextDelay
    \/ Reset
    \/ ManagerTimePasses

\* A manager with every operation called in any order.
ManagerSpec == ManagerSpecInit /\ [][ManagerNext]_vars

\* A manager with jitter of which waitForNextRetry alone is called.
ManagerJitterNext ==
    \/ WaitForNextRetry
    \/ \E i \in DOMAIN waits : WaitReturns(i)
    \/ ManagerTimePasses

ManagerJitterSpec == ManagerJitterInit /\ [][ManagerJitterNext]_vars

(***************************************************************************)
(* BackoffTimerFactory.  The observables are those of RxJS: timer(due)     *)
(* sets a timer on subscription (a negative due counting as 0), delivers 0 *)
(* and then the completion when it runs, and clears it on unsubscription;  *)
(* a subscriber that is closed is delivered nothing.  created.logged is    *)
(* what console.debug was called with since the call of create began.      *)
(***************************************************************************)
\* The retry counts create is called with.
TimerRetryCounts == {Num(-1), Num(1), Num(3)}

\* The arguments given to the constructor: the flags may be left out.
TimerOptionSets ==
    {[baseDelayMs |-> Num(100), maxDelayMs |-> Undefined, jitterFactor |-> Zero],
     [baseDelayMs |-> Undefined, maxDelayMs |-> Num(3000), jitterFactor |-> Undefined,
      emitDelay |-> FALSE],
     [baseDelayMs |-> Num(100), maxDelayMs |-> Num(150), jitterFactor |-> Rat(1, 4),
      emitDelay |-> TRUE, enableDebugLogs |-> TRUE],
     [baseDelayMs |-> Num(100), maxDelayMs |-> Num(150), jitterFactor |-> Zero,
      enableDebugLogs |-> TRUE]}

\* create(retryCount): no override is given.
NoOverride == [f \in {} |-> FALSE]

\* The overrides given to create: only the fields given are in the record.
TimerOverrides ==
    {[emitDelay |-> TRUE], [emitDelay |-> FALSE],
     [baseDelayMs |-> Num(200), enableDebugLogs |-> FALSE]}

\* options.flag ?? false
FlagOrFalse(given, flag) == IF flag \in DOMAIN given THEN given[flag] ELSE FALSE

\* this.options = { baseDelayMs: options.baseDelayMs ?? 1000, ... }
FactoryOptions(given) ==
    [baseDelayMs     |-> OrDefault(given.baseDelayMs, DefaultBaseDelayMs),
     maxDelayMs      |-> OrDefault(given.maxDelayMs, DefaultMaxDelayMs),
     jitterFactor    |-> OrDefault(given.jitterFactor, DefaultJitterFactor),
     emitDelay       |-> FlagOrFalse(given, "emitDelay"),
     enableDebugLogs |-> FlagOrFalse(given, "enableDebugLogs")]

\* The object a BackoffTimerFactory stores.
FactoryConfig(given) == [owner |-> "BackoffTimerFactory", value |-> FactoryOptions(given)]

\* { ...this.options, ...overrideOptions }
MergeOptions(defaults, overrideOptions) ==
    [f \in DOMAIN defaults |->
        IF f \in DOMAIN overrideOptions THEN overrideOptions[f] ELSE defaults[f]]

\* Mutant: the line is written whatever enableDebugLogs is.
DebugLines_Always(enableDebugLogs, backoffResult) ==
    <<"[exponential-backoff-timer] " \o BackoffResultToString(backoffResult)>>

\* if (options.enableDebugLogs) console.debug(
\*     `[exponential-backoff-timer] ${backoffResult.toString()}`)
\* The lines create writes to the console.
DebugLines(enableDebugLogs, backoffResult) ==
    IF enableDebugLogs
    THEN <<"[exponential-backoff-timer] " \o BackoffResultToString(backoffResult)>>
    ELSE <<>>

\* Mutant: the line is written again at the subscription.
SubscribeDebugLines_Again(observable) ==
    <<"[exponential-backoff-timer] " \o BackoffResultToString(observable.backoffResult)>>

\* The lines the subscription to the observable writes to the console:
\* neither timer() nor the observable that emits the delay writes any.
SubscribeDebugLines(observable) == <<>>

\* Mutant: create stores the merged options, Object.assign(this.options,
\* overrideOptions).
StoredAfterCreate_Assigned(stored, merged) == merged

\* this.options after create: the merged options are a new object, options,
\* local to the call.
StoredAfterCreate(stored, merged) == stored

\* Mutant: the timer is set for the delay before jitter.
TimerDueTime_Capped(backoffResult) == backoffResult.cappedDelayMs

\* timer(backoffResult.delayMs)
TimerDueTime(backoffResult) == backoffResult.delayMs

\* Mutant: the delay before jitter is emitted.
EmittedDelay_Capped(backoffResult) == backoffResult.cappedDelayMs

\* subscriber.next(backoffResult.delayMs)
EmittedDelay(backoffResult) == backoffResult.delayMs

\* Mutant: the observable that emits the delay returns no teardown, and its
\* inner timer runs on.
TimerRunsAfterUnsubscribe_NoTeardown(emitDelay, running) == emitDelay /\ running

\* Whether the timer still runs after the unsubscription: the observable
\* of timer() clears it, and the one that emits the delay unsubscribes that
\* one in its teardown, return () => subscription.unsubscribe().
TimerRunsAfterUnsubscribe(emitDelay, running) == FALSE

\* A notification to the subscriber, at the time at since the subscription.
NextNotification(value, at) == [kind |-> "next", value |-> value, at |-> at]

CompleteNotification(at) == [kind |-> "complete", value |-> Zero, at |-> at]

\* What a subscriber has received after ns more notifications: nothing
\* more once it is closed.
Deliver(state, ns) == IF state = "open" THEN received \o ns ELSE received

\* The subscriptions made to one observable, one after the other.
MaxSubscriptions == 2

\* Mutant: the delay is calculated at the subscription, with a new draw.
SubscribedResult_Recalculated(observable, random) ==
    CalculateExponentialBackoff(observable.retryCount,
        MergeOptions(config.value, observable.overrideOptions), random).result

\* The backoffResult the subscriber function of the observable reads: the
\* constant of the call of create that made it.
SubscribedResult(observable, random) == observable.backoffResult

TimerSpecInit ==
    /\ options \in TimerOptionSets
    /\ retryAttempt = Num(1)
    /\ rng \in RandomDraws
    /\ CalculatorInit
    /\ ManagerInit
    /\ TimerInit
    /\ RetryInit
    /\ config = FactoryConfig(options)
    /\ copies = <<>>
    /\ text = NoText

\* create(retryCount, overrideOptions)
CreateWith(retryCount, overrideOptions) ==
    LET merged == MergeOptions(config.value, overrideOptions)
        c      == CalculateExponentialBackoff(retryCount,
                      [baseDelayMs  |-> merged.baseDelayMs,
                       maxDelayMs   |-> merged.maxDelayMs,
                       jitterFactor |-> merged.jitterFactor], rng)
    IN  /\ created' = [made          |-> TRUE,
                       retryCount    |-> retryCount,
                       call          |-> c,
                       backoffResult |-> c.result,
                       emitDelay     |-> merged.emitDelay,
                       overrideOptions |-> overrideOptions,
                       logged        |-> DebugLines(merged.enableDebugLogs, c.result)]
        /\ subscription' = NoSubscription
        /\ received' = <<>>
        /\ earlier' = <<>>
        /\ config' = [config EXCEPT !.value = StoredAfterCreate(config.value, merged)]
        /\ RandomAdvance(c)
        /\ UNCHANGED <<options, copies, text, calculatorVars, managerVars, retryVars>>

\* create is called at the start and when the subscription to the
\* observable created before is over.
Create ==
    \E retryCount \in TimerRetryCounts :
        /\ ~created.made \/ subscription.state = "closed"
        /\ \/ CreateWith(retryCount, NoOverride)
           \/ \E overrideOptions \in TimerOverrides : CreateWith(retryCount, overrideOptions)

\* The subscriber function runs: with emitDelay the delay is delivered at
\* once; the timer is set.  A subscription before it is over and kept.
SubscribeNow ==
    LET backoffResult == SubscribedResult(created, rng)
    IN  /\ created.made
        /\ earlier' = IF subscription.state = "none" THEN earlier
                      ELSE Append(earlier, [timerMs  |-> subscription.timerMs,
                                            received |-> received])
        /\ received' = IF created.emitDelay
                       THEN <<NextNotification(EmittedDelay(backoffResult), Zero)>>
                       ELSE <<>>
        /\ subscription' = [NoSubscription EXCEPT
                                !.state = "open",
                                !.timerRunning = TRUE,
                                !.timerMs = MathMax(Zero, TimerDueTime(backoffResult))]
        /\ created' = [created EXCEPT !.logged = @ \o SubscribeDebugLines(created)]
        /\ UNCHANGED <<options, configVars, text, rng, calculatorVars, managerVars,
                       retryVars>>

\* subscribe(), the first subscription to the observable.
Subscribe == subscription.state = "none" /\ SubscribeNow

\* subscribe() again, to the same observable, when the subscription before
\* is over.
SubscribeAgain ==
    /\ subscription.state = "closed"
    /\ Len(earlier) + 1 < MaxSubscriptions
    /\ SubscribeNow

\* The timer runs: 0 and the completion are delivered.
TimerFires ==
    /\ subscription.timerRunning
    /\ TimerElapsed(subscription.timerMs, subscription.elapsed)
    /\ received' = Deliver(subscription.state,
                           <<NextNotification(Zero, subscription.elapsed),
                             CompleteNotification(subscription.elapsed)>>)
    /\ subscription' = [subscription EXCEPT
                            !.timerRunning = FALSE,
                            !.completed = (subscription.state = "open"),
                            !.state = "closed"]
    /\ UNCHANGED <<options, configVars, text, rng, created, earlier, calculatorVars, managerVars, retryVars>>

\* unsubscribe(), before the completion.
Unsubscribe ==
    /\ subscription.state = "open"
    /\ subscription' = [subscription EXCEPT
                            !.state = "closed",
                            !.cancelled = TRUE,
                            !.timerRunning = TimerRunsAfterUnsubscribe(
                                                 created.emitDelay, subscription.timerRunning),
                            !.receivedAtCancel = Len(received)]
    /\ UNCHANGED <<options, configVars, text, rng, created, earlier, received, calculatorVars, managerVars, retryVars>>

\* Time passes after the subscription: to the expiry of the timer, half the
\* way to it from the start, or on after the expiry.
TimerTimePasses ==
    \E d \in TimerSteps(subscription.timerMs, subscription.elapsed)
              \cup {Mul(Rat(1, 2), subscription.timerMs), LateMs} :
        /\ subscription.state # "none"
        /\ Gt(d, Zero)
        /\ d = Mul(Rat(1, 2), subscription.timerMs) => subscription.elapsed = Zero
        /\ d = LateMs => subscription.elapsed = subscription.timerMs
        /\ subscription' = [subscription EXCEPT
               !.elapsed = TimerAfter(subscription.timerMs, subscription.elapsed, d)]
        /\ UNCHANGED <<options, configVars, text, rng, created, earlier, received, calculatorVars, managerVars, retryVars>>

TimerNext ==
    \/ Create
    \/ Subscribe
    \/ TimerFires
    \/ Unsubscribe
    \/ TimerTimePasses

TimerSpec == TimerSpecInit /\ [][TimerNext]_vars

\* One observable, created once and subscribed to more than once.
FirstCreate == ~created.made /\ Create

ResubscribeNext ==
    \/ FirstCreate
    \/ Subscribe
    \/ SubscribeAgain
    \/ TimerFires
    \/ Unsubscribe
    \/ TimerTimePasses

ResubscribeSpec == TimerSpecInit /\ [][ResubscribeNext]_vars

(***************************************************************************)
(* The retry operator of RxJS with a delay function, as                    *)
(* retryHttpRequestModern uses it.  On an error of the source the operator *)
(* counts it (soFar) and, while soFar has not passed count, calls          *)
(* delay(error, soFar) and subscribes to the observable returned; at its   *)
(* first notification it unsubscribes from it and subscribes to the source *)
(* again.  Past count the error of the source is passed on as it is.       *)
(***************************************************************************)
\* The largest count given to retry.
MaxRetries == 3

\* Mutant: the delay function counts the calls made before.
DelayFunctionAttempt_CallsBefore(retryCount) == retryCount - 1

\* Mutant: one retry more than asked for.
RetryCount_OneMore(maxRetries) == maxRetries + 1

\* retry({ count: maxRetries, ... })
RetryCount(maxRetries) == maxRetries

\* (_error, retryCount) => factory.create(retryCount)
DelayFunctionAttempt(retryCount) == retryCount

\* The error the source raises in its i-th subscription: a new object each
\* time.
ErrorOf(i) == [name |-> "Error", message |-> "Always fails", raisedIn |-> i]

ErrorNotification(error) == [kind |-> "error", value |-> error]

ValueNotification(value) == [kind |-> "next", value |-> value]

\* Whether the source fails in the subscription now open.
SourceFailsNow == retry.alwaysFails \/ retry.subscriptions <= retry.failures

\* source.pipe(retry({ count, delay })), the delay function made by
\* createBackoffDelayFunction(options); the source fails in every
\* subscription, or in the first failures ones.
RetrySpecInit ==
    /\ options \in TimerOptionSets
    /\ retryAttempt = Num(1)
    /\ rng \in RandomDraws
    /\ CalculatorInit
    /\ ManagerInit
    /\ TimerInit
    /\ \E maxRetries \in 0 .. MaxRetries, alwaysFails \in BOOLEAN,
          failures \in 0 .. MaxRetries + 1 :
           /\ alwaysFails => failures = 0
           /\ retry = [NoRetry EXCEPT !.maxRetries = maxRetries,
                                      !.count = RetryCount(maxRetries),
                                      !.alwaysFails = alwaysFails,
                                      !.failures = failures]
    /\ delivered = <<>>
    /\ config = FactoryConfig(options)
    /\ copies = <<>>
    /\ text = NoText

\* The consumer subscribes: the operator subscribes to the source.
RetrySubscribe ==
    /\ retry.phase = "idle"
    /\ retry' = [retry EXCEPT !.phase = "source", !.subscriptions = 1]
    /\ UNCHANGED <<options, configVars, text, rng, delivered, calculatorVars, managerVars, timerVars>>

\* The source emits a value and completes.
SourceSucceeds ==
    /\ retry.phase = "source"
    /\ ~SourceFailsNow
    /\ delivered' = delivered \o <<ValueNotification(retry.subscriptions),
                                    [kind |-> "complete", value |-> 0]>>
    /\ retry' = [retry EXCEPT !.phase = "completed"]
    /\ UNCHANGED <<options, configVars, text, rng, calculatorVars, managerVars, timerVars>>

\* The source fails past the count: its error is passed on.
SourceFailsForGood ==
    /\ retry.phase = "source"
    /\ SourceFailsNow
    /\ ~(retry.soFar < retry.count)
    /\ delivered' = Append(delivered, ErrorNotification(ErrorOf(retry.subscriptions)))
    /\ retry' = [retry EXCEPT !.phase = "errored", !.soFar = retry.soFar + 1]
    /\ UNCHANGED <<options, configVars, text, rng, calculatorVars, managerVars, timerVars>>

\* The source fails within the count: the delay function is called, it
\* calls factory.create(retryCount), and the operator subscribes to the
\* observable.  With emitDelay the delay value is delivered to the operator
\* within that subscription, so that it unsubscribes and subscribes to the
\* source again at once; else it waits for the timer.
SourceFailsAndRetries ==
    LET soFar  == retry.soFar + 1
        merged == config.value
        c      == CalculateExponentialBackoff(Num(DelayFunctionAttempt(soFar)),
                      [baseDelayMs  |-> merged.baseDelayMs,
                       maxDelayMs   |-> merged.maxDelayMs,
                       jitterFactor |-> merged.jitterFactor], rng)
    IN  /\ retry.phase = "source"
        /\ SourceFailsNow
        /\ retry.soFar < retry.count
        /\ created' = [made          |-> TRUE,
                       retryCount    |-> Num(DelayFunctionAttempt(soFar)),
                       call          |-> c,
                       backoffResult |-> c.result,
                       emitDelay     |-> merged.emitDelay,
                       overrideOptions |-> NoOverride,
                       logged        |-> DebugLines(merged.enableDebugLogs, c.result)]
        /\ IF merged.emitDelay
           THEN /\ received' = <<NextNotification(EmittedDelay(c.result), Zero)>>
                /\ subscription' = [NoSubscription EXCEPT
                       !.state = "closed",
                       !.cancelled = TRUE,
                       !.timerRunning = TimerRunsAfterUnsubscribe(TRUE, TRUE),
                       !.timerMs = MathMax(Zero, TimerDueTime(c.result)),
                       !.receivedAtCancel = 1]
                /\ retry' = [retry EXCEPT !.soFar = soFar, !.phase = "source",
                                          !.subscriptions = retry.subscriptions + 1]
           ELSE /\ received' = <<>>
                /\ subscription' = [NoSubscription EXCEPT
                       !.state = "open",
                       !.timerRunning = TRUE,
                       !.timerMs = MathMax(Zero, TimerDueTime(c.result))]
                /\ retry' = [retry EXCEPT !.soFar = soFar, !.phase = "waiting"]
        /\ RandomAdvance(c)
        /\ UNCHANGED <<options, configVars, text, delivered, earlier, calculatorVars, managerVars>>

\* The timer of the observable runs: at its 0 the operator unsubscribes
\* from it and subscribes to the source again.
RetryTimerFires ==
    /\ retry.phase = "waiting"
    /\ subscription.timerRunning
    /\ TimerElapsed(subscription.timerMs, subscription.elapsed)
    /\ received' = Deliver(subscription.state,
                           <<NextNotification(Zero, subscription.elapsed)>>)
    /\ subscription' = [subscription EXCEPT
                            !.timerRunning = FALSE,
                            !.cancelled = TRUE,
                            !.state = "closed",
                            !.receivedAtCancel = Len(received')]
    /\ retry' = [retry EXCEPT !.phase = "source",
                              !.subscriptions = retry.subscriptions + 1]
    /\ UNCHANGED <<options, configVars, text, rng, created, earlier, delivered, calculatorVars, managerVars>>

\* Time passes while the operator waits.
RetryTimePasses ==
    /\ retry.phase = "waiting"
    /\ TimerTimePasses

RetryNext ==
    \/ RetrySubscribe
    \/ SourceSucceeds
    \/ SourceFailsForGood
    \/ SourceFailsAndRetries
    \/ RetryTimerFires
    \/ RetryTimePasses

RetrySpec == RetrySpecInit /\ [][RetryNext]_vars

(***************************************************************************)
(* The retry operator with the delay functions of                          *)
(* retryHttpWithStatusCodeLogic and retryHttpRequestWithCustomLogic.  The  *)
(* delay function either throws the error it is given, and the operator    *)
(* passes what its delay function throws on to the consumer as an error,   *)
(* or returns createBackoffTimer(retryCount, options), the observable of a *)
(* new factory.  The source raises the errors of retry.statuses, one in    *)
(* each subscription, and succeeds once they are used up.                  *)
(***************************************************************************)
\* The largest number of subscriptions the source fails in.
MaxFailures == 2

\* error.status: a client error, rate limiting, a server error, and an
\* error that has no status.
HttpStatuses == {Num(499), Num(429), Num(500), Undefined}

\* The error the source raises in its i-th subscription.
HttpErrorOf(status, i) == [status |-> status, message |-> "failed", raisedIn |-> i]

\* error.status < 500: false for an error without a status.
StatusBelow500(status) == IF status = Undefined THEN FALSE ELSE Lt(status, Num(500))

\* error.status === 429
StatusIs429(status) == status = Num(429)

\* Mutant: every status below 500 fails fast, 429 included.
StatusCodeThrows_No429(error) == StatusBelow500(error.status)

\* if (error.status < 500 && error.status !== 429) throw error;
StatusCodeThrows(error) == StatusBelow500(error.status) /\ ~StatusIs429(error.status)

\* Mutant: the same base delay for every status.
StatusCodeBaseDelayMs_Same(error) == Num(1000)

\* const baseDelayMs = error.status === 429 ? 2000 : 1000;
StatusCodeBaseDelayMs(error) == IF StatusIs429(error.status) THEN Num(2000) ELSE Num(1000)

\* { baseDelayMs, maxDelayMs: 30000, jitterFactor: 0.25 }
StatusCodeOptions(error) ==
    [baseDelayMs |-> StatusCodeBaseDelayMs(error), maxDelayMs |-> Num(30000),
     jitterFactor |-> Rat(1, 4)]

\* The shouldRetry the caller gives: none, or a function of the error.
ShouldRetryFunctions == {"undefined", "always", "never", "serverErrors"}

\* shouldRetry(error)
ShouldRetry(shouldRetry, error) ==
    CASE shouldRetry = "always" -> TRUE
      [] shouldRetry = "never" -> FALSE
      [] OTHER -> error.status # Undefined /\ Ge(error.status, Num(500))

\* Mutant: the error is thrown when shouldRetry accepts it.
CustomLogicThrows_Accepted(shouldRetry, error) ==
    shouldRetry # "undefined" /\ ShouldRetry(shouldRetry, error)

\* if (shouldRetry && !shouldRetry(error)) throw error;
CustomLogicThrows(shouldRetry, error) ==
    shouldRetry # "undefined" /\ ~ShouldRetry(shouldRetry, error)

\* { baseDelayMs: 1000, maxDelayMs: 5000, jitterFactor: 0.2 }
CustomLogicOptions ==
    [baseDelayMs |-> Num(1000), maxDelayMs |-> Num(5000), jitterFactor |-> Rat(1, 5)]

\* Whether the delay function of the service throws the error.
DelayFunctionThrows(service, shouldRetry, error) ==
    IF service = "retryHttpWithStatusCodeLogic"
    THEN StatusCodeThrows(error)
    ELSE CustomLogicThrows(shouldRetry, error)

\* The options the delay function of the service gives createBackoffTimer.
DelayFunctionOptions(service, error) ==
    IF service = "retryHttpWithStatusCodeLogic"
    THEN StatusCodeOptions(error)
    ELSE CustomLogicOptions

\* The sequences of at most n statuses.
RECURSIVE StatusSequences(_)

StatusSequences(n) ==
    IF n = 0 THEN {<<>>}
    ELSE LET shorter == StatusSequences(n - 1)
         IN  shorter \cup {Append(s, status) : s \in shorter, status \in HttpStatuses}

\* The error the source raises in the subscription now open.
HttpCurrentError == HttpErrorOf(retry.statuses[retry.subscriptions], retry.subscriptions)

HttpSourceFailsNow == retry.subscriptions <= Len(retry.statuses)

\* service(source, maxRetries[, shouldRetry]); no factory is made yet.
HttpRetrySpecInit ==
    /\ options = [baseDelayMs |-> Undefined, maxDelayMs |-> Undefined,
                  jitterFactor |-> Undefined]
    /\ retryAttempt = Num(1)
    /\ rng \in RandomDraws
    /\ CalculatorInit
    /\ ManagerInit
    /\ TimerInit
    /\ \E maxRetries \in 0 .. MaxRetries, statuses \in StatusSequences(MaxFailures),
          shouldRetry \in ShouldRetryFunctions,
          service \in {"retryHttpWithStatusCodeLogic", "retryHttpRequestWithCustomLogic"} :
           /\ service = "retryHttpWithStatusCodeLogic" => shouldRetry = "undefined"
           /\ retry = [maxRetries    |-> maxRetries,
                       count         |-> RetryCount(maxRetries),
                       service       |-> service,
                       shouldRetry   |-> shouldRetry,
                       statuses      |-> statuses,
                       soFar         |-> 0,
                       subscriptions |-> 0,
                       phase         |-> "idle"]
    /\ delivered = <<>>
    /\ config = NoConfig
    /\ copies = <<>>
    /\ text = NoText

\* The source emits a value and completes.
HttpSourceSucceeds ==
    /\ retry.phase = "source"
    /\ ~HttpSourceFailsNow
    /\ delivered' = delivered \o <<ValueNotification(retry.subscriptions),
                                    [kind |-> "complete", value |-> 0]>>
    /\ retry' = [retry EXCEPT !.phase = "completed"]
    /\ UNCHANGED <<options, configVars, text, rng, calculatorVars, managerVars, timerVars>>

\* The source fails.  Past the count its error is passed on.  Within the
\* count the delay function is called with the error and the number of the
\* retry: what it throws is passed on as the error of the whole; else the
\* operator subscribes to the observable it returns and waits.
HttpSourceFails ==
    LET error   == HttpCurrentError
        soFar   == retry.soFar + 1
        given   == DelayFunctionOptions(retry.service, error)
        merged  == FactoryConfig(given).value
        c       == CalculateExponentialBackoff(Num(soFar),
                       [baseDelayMs  |-> merged.baseDelayMs,
                        maxDelayMs   |-> merged.maxDelayMs,
                        jitterFactor |-> merged.jitterFactor], rng)
    IN  /\ retry.phase = "source"
        /\ HttpSourceFailsNow
        /\ IF ~(retry.soFar < retry.count)
              \/ DelayFunctionThrows(retry.service, retry.shouldRetry, error)
           THEN /\ delivered' = Append(delivered, ErrorNotification(error))
                /\ retry' = [retry EXCEPT !.phase = "errored", !.soFar = soFar]
                /\ UNCHANGED <<options, configVars, text, rng, timerVars>>
           ELSE /\ options' = given
                /\ config' = FactoryConfig(given)
                /\ UNCHANGED copies
                /\ created' = [made          |-> TRUE,
                               retryCount    |-> Num(soFar),
                               call          |-> c,
                               backoffResult |-> c.result,
                               emitDelay     |-> merged.emitDelay,
                               overrideOptions |-> NoOverride,
                               logged        |-> DebugLines(merged.enableDebugLogs,
                                                                c.result)]
                /\ received' = <<>>
                /\ subscription' = [NoSubscription EXCEPT
                       !.state = "open",
                       !.timerRunning = TRUE,
                       !.timerMs = MathMax(Zero, TimerDueTime(c.result))]
                /\ retry' = [retry EXCEPT !.soFar = soFar, !.phase = "waiting"]
                /\ RandomAdvance(c)
                /\ UNCHANGED <<delivered, earlier>>
        /\ UNCHANGED <<calculatorVars, managerVars, text>>

HttpRetryNext ==
    \/ RetrySubscribe
    \/ HttpSourceSucceeds
    \/ HttpSourceFails
    \/ RetryTimerFires
    \/ RetryTimePasses

HttpRetrySpec == HttpRetrySpecInit /\ [][HttpRetryNext]_vars

(***************************************************************************)
(* The configuration objects.  A program constructs a BackoffTimerFactory  *)
(* or a RetryManager with options, or calls calculateExponentialBackoff    *)
(* with them; it reads the configuration of the object (getOptions(), the  *)
(* options getter), tries to write to what it was given, and goes on       *)
(* using the object.  An object read is the record of its identity (the    *)
(* stored object being 0), its fields, whether it is frozen, whether it    *)
(* was read after a call of create, and what the latest write to it came   *)
(* to: a write to a frozen object is refused (a    *)
(* TypeError in strict code, no effect elsewhere).                         *)
(***************************************************************************)
\* The largest number of reads of the configuration.
MaxCopies == 2

\* The flags given to the constructor, for every choice of the flags given.
FlagOptionSets ==
    {NoOverride, [emitDelay |-> TRUE], [enableDebugLogs |-> TRUE],
     [emitDelay |-> TRUE, enableDebugLogs |-> TRUE]}

\* The numbers given, for every choice of the fields given.
NumberOptionSets ==
    [baseDelayMs : {Undefined, Num(100)}, maxDelayMs : {Undefined, Num(150)},
     jitterFactor : {Undefined, Zero}]

\* { ...numbers, ...flags }
WithFlags(numbers, flags) ==
    [f \in DOMAIN numbers \cup DOMAIN flags |->
        IF f \in DOMAIN flags THEN flags[f] ELSE numbers[f]]

\* The arguments of the constructor of a factory.
ConfigOptionSets ==
    {WithFlags(numbers, flags) : numbers \in NumberOptionSets, flags \in FlagOptionSets}

\* The overrides given to create: those of TimerOverrides, and a field
\* given as undefined.
ConfigOverrides == TimerOverrides \cup {[maxDelayMs |-> Undefined]}

\* The attempts calculateExponentialBackoff is called with.
ConfigAttempts == {Num(1), Num(3)}

\* The stored object, as an object read.
StoredObject ==
    [id |-> 0, value |-> config.value, frozen |-> FALSE, written |-> "none",
     readAfterCreate |-> created.made]

\* Mutant: the stored object itself is returned.
SpreadCopy_SameObject(object, id) == object

\* { ...object }: a new object with the fields of object.
SpreadCopy(object, id) == [object EXCEPT !.id = id, !.frozen = FALSE]

\* Mutant: the object is not frozen.
ObjectFreeze_Skipped(object) == object

\* Object.freeze(object)
ObjectFreeze(object) == [object EXCEPT !.frozen = TRUE]

\* new BackoffTimerFactory(options) or new RetryManager(options).
ConfigSpecInit ==
    /\ \E owner \in {"BackoffTimerFactory", "RetryManager"} :
           /\ owner = "BackoffTimerFactory" =>
                  /\ options \in {o \in TimerOptionSets : o.jitterFactor = Zero}
                  /\ config = FactoryConfig(options)
           /\ owner = "RetryManager" =>
                  options \in ManagerOptionSets /\ config = ManagerConfig(options)
    /\ retryAttempt = Num(1)
    /\ rng = Zero
    /\ CalculatorInit
    /\ ManagerInit
    /\ TimerInit
    /\ RetryInit
    /\ copies = <<>>
    /\ text = NoText

\* The same, or the options kept for the calls of
\* calculateExponentialBackoff, for every choice of the fields given.
DefaultsSpecInit ==
    /\ \E owner \in {"BackoffTimerFactory", "RetryManager", "calculateExponentialBackoff"} :
           /\ owner = "BackoffTimerFactory" =>
                  options \in ConfigOptionSets /\ config = FactoryConfig(options)
           /\ owner = "RetryManager" =>
                  options \in NumberOptionSets /\ config = ManagerConfig(options)
           /\ owner = "calculateExponentialBackoff" =>
                  options \in NumberOptionSets /\ config = [owner |-> owner]
    /\ retryAttempt \in ConfigAttempts
    /\ config.owner # "calculateExponentialBackoff" => retryAttempt = Num(1)
    /\ rng = Zero
    /\ CalculatorInit
    /\ ManagerInit
    /\ TimerInit
    /\ RetryInit
    /\ copies = <<>>
    /\ text = NoText

\* Object.freeze({ ...this.options }) returned to the caller.
ReadConfig ==
    /\ Len(copies) < MaxCopies
    /\ copies' = Append(copies, ObjectFreeze(SpreadCopy(StoredObject, Len(copies) + 1)))
    /\ UNCHANGED <<options, rng, config, text, calculatorVars, managerVars, timerVars, retryVars>>

\* factory.getOptions()
GetOptions == config.owner = "BackoffTimerFactory" /\ ReadConfig

\* manager.options
OptionsGetter == config.owner = "RetryManager" /\ ReadConfig

\* copy.baseDelayMs = 999, by the caller on an object it read: refused when
\* the object is frozen, else it changes the object, which is the stored
\* one when the identity is the same.
WriteCopy ==
    \E i \in DOMAIN copies :
        /\ copies[i].written = "none"
        /\ IF copies[i].frozen
           THEN /\ copies' = [copies EXCEPT ![i].written = "refused"]
                /\ UNCHANGED config
           ELSE /\ copies' = [copies EXCEPT ![i].written = "written",
                                            ![i].value.baseDelayMs = Num(999)]
                /\ config' = IF copies[i].id = 0
                             THEN [config EXCEPT !.value.baseDelayMs = Num(999)]
                             ELSE config
        /\ UNCHANGED <<options, rng, text, calculatorVars, managerVars, timerVars, retryVars>>

\* factory.create(retryCount, overrideOptions), the observable created
\* before being dropped.
FactoryCreates ==
    \E retryCount \in ConfigAttempts :
        /\ config.owner = "BackoffTimerFactory"
        /\ \/ CreateWith(retryCount, NoOverride)
           \/ \E overrideOptions \in ConfigOverrides : CreateWith(retryCount, overrideOptions)

\* manager.waitForNextRetry()
ManagerWaits == config.owner = "RetryManager" /\ WaitForNextRetry

\* manager.previewNextDelay()
ManagerPreviews == config.owner = "RetryManager" /\ PreviewNextDelay

\* calculateExponentialBackoff(retryAttempt, options)
FunctionCalculates == config.owner = "calculateExponentialBackoff" /\ Calculate

ConfigNext ==
    \/ GetOptions
    \/ OptionsGetter
    \/ WriteCopy
    \/ FactoryCreates
    \/ ManagerWaits
    \/ ManagerPreviews

ConfigSpec == ConfigSpecInit /\ [][ConfigNext]_vars

DefaultsNext ==
    \/ GetOptions
    \/ OptionsGetter
    \/ FunctionCalculates

DefaultsSpec == DefaultsSpecInit /\ [][DefaultsNext]_vars

(***************************************************************************)
(* toString().  A caller computes a result with                            *)
(* calculateExponentialBackoff(retryAttempt, options) and calls toString() *)
(* on it.                                                                  *)
(***************************************************************************)
\* The options of the results described: a delay of 1 ms has offsets
\* between -1/2 and 1/2.
ToStringOptionSets ==
    [baseDelayMs : {Num(100), Num(1)}, maxDelayMs : {Undefined, Num(150)},
     jitterFactor : {Zero, Rat(1, 4)}]

\* The attempts: the raw delay of 1025 is Infinity.
ToStringAttempts == {Num(1), Num(3), Num(1025), NaN}

\* The draws: at 1/2 the offset is 0.
ToStringDraws == RandomDraws \cup {Rat(1, 2), Rat(3, 4)}

ToStringSpecInit ==
    /\ options \in ToStringOptionSets
    /\ retryAttempt \in ToStringAttempts
    /\ rng \in ToStringDraws
    /\ CalculatorInit
    /\ ManagerInit
    /\ TimerInit
    /\ RetryInit
    /\ config = NoConfig
    /\ copies = <<>>
    /\ text = NoText

\* result.toString(), on the result of the latest call.
ResultToString ==
    /\ last.made
    /\ text' = [made |-> TRUE, result |-> last.result,
                value |-> BackoffResultToString(last.result)]
    /\ UNCHANGED <<options, rng, configVars, calculatorVars, managerVars, timerVars,
                   retryVars>>

ToStringNext == Calculate \/ ResultToString

ToStringSpec == ToStringSpecInit /\ [][ToStringNext]_vars

(***************************************************************************)
(* The delay function of retryHttpWithStatusCodeLogic, called as the retry *)
(* operator calls it, with an error and the number of the retry: twice     *)
(* with the same number, as in two runs that reach the same retry.  The    *)
(* variable retry holds the number and, for each call in order, the status *)
(* of the error, whether the call threw it, and the BackoffResult of the   *)
(* observable returned.                                                    *)
(***************************************************************************)
MaxRetryCount == 6

StatusDelayInit ==
    /\ options = [baseDelayMs |-> Undefined, maxDelayMs |-> Undefined,
                  jitterFactor |-> Undefined]
    /\ retryAttempt = Num(1)
    /\ rng \in RandomDraws
    /\ CalculatorInit
    /\ ManagerInit
    /\ TimerInit
    /\ \E retryCount \in 1 .. MaxRetryCount :
           retry = [phase |-> "delay", retryCount |-> retryCount, calls |-> <<>>]
    /\ delivered = <<>>
    /\ config = NoConfig
    /\ copies = <<>>
    /\ text = NoText

\* delay(error, retryCount): throws the error, or returns
\* createBackoffTimer(retryCount, { baseDelayMs, maxDelayMs: 30000, jitterFactor: 0.25 }).
StatusCodeDelay ==
    \E status \in HttpStatuses :
        LET error  == HttpErrorOf(status, Len(retry.calls) + 1)
            given  == StatusCodeOptions(error)
            merged == FactoryConfig(given).value
            c      == CalculateExponentialBackoff(Num(retry.retryCount),
                          [baseDelayMs  |-> merged.baseDelayMs,
                           maxDelayMs   |-> merged.maxDelayMs,
                           jitterFactor |-> merged.jitterFactor], rng)
        IN  /\ retry.phase = "delay"
            /\ Len(retry.calls) < 2
            /\ IF StatusCodeThrows(error)
               THEN /\ retry' = [retry EXCEPT !.calls =
                          Append(@, [status |-> status, thrown |-> TRUE,
                                     timerMs |-> Zero])]
                    /\ UNCHANGED rng
               ELSE /\ retry' = [retry EXCEPT !.calls =
                          Append(@, [status |-> status, thrown |-> FALSE,
                                     timerMs |-> MathMax(Zero, TimerDueTime(c.result))])]
                    /\ RandomAdvance(c)
            /\ UNCHANGED <<options, configVars, text, delivered, calculatorVars,
                           managerVars, timerVars>>

StatusDelayNext == StatusCodeDelay

StatusDelaySpec == StatusDelayInit /\ [][StatusDelayNext]_vars

(***************************************************************************)
(* What the claims are stated in: the arguments as the caller gave them    *)
(* (a missing field stands for its documented default) and exact           *)
(* arithmetic.                                                             *)
(***************************************************************************)
GivenBase == IF options.baseDelayMs = Undefined THEN Num(1000) ELSE options.baseDelayMs

GivenMax == IF options.maxDelayMs = Undefined THEN Num(5000) ELSE options.maxDelayMs

GivenJitter == IF options.jitterFactor = Undefined THEN Rat(1, 5) ELSE options.jitterFactor

Called == last.made

R == last.result

IntegerAttempt == IsInteger(retryAttempt)

FractionalAttempt == IsFinite(retryAttempt) /\ ~IsInteger(retryAttempt)

\* The real number base * 2^(a-1), for an integer a >= 1.
ExactRaw(base, a) == RealMul(base, [k |-> "fin", n |-> 1, d |-> 1, e |-> a - 1])

RealMin(a, b) == IF CmpFin(a, b) <= 0 THEN a ELSE b

RealMax(a, b) == IF CmpFin(a, b) >= 0 THEN a ELSE b

\* The largest integer at or below the finite number a: a itself, or for a
\* fraction the integer found by search.
FloorInt(a) ==
    IF IsInteger(a) THEN IntOf(a)
    ELSE CHOOSE i \in -4 .. 2 * MaxAttempt + 4 :
             Le(Num(i), a) /\ Lt(a, Num(i + 1))

\* The result of a call with attempt a, the same options and no jitter drawn.
ResultFor(a) == CalculateExponentialBackoff(a, options, Zero).result

(***************************************************************************)
(* C1.  For every integer attempt a >= 1 and positive baseDelayMs and      *)
(* maxDelayMs with jitterFactor = 0, delayMs is exactly                    *)
(* min(baseDelayMs * 2^(a-1), maxDelayMs) and jitterOffsetMs is 0; with    *)
(* base 1000 and max 5000 the attempts 1, 2, 3, 4 give 1000, 2000, 4000,   *)
(* 5000 and only attempt 4 is capped.                                      *)
(***************************************************************************)
C1_ExactCappedDelay ==
    (/\ Called
     /\ IntegerAttempt /\ Ge(retryAttempt, Num(1))
     /\ Gt(GivenBase, Zero) /\ Gt(GivenMax, Zero)
     /\ options.jitterFactor = Zero)
    => /\ R.delayMs = RealMin(ExactRaw(GivenBase, IntOf(retryAttempt)), GivenMax)
       /\ R.jitterOffsetMs = Zero
       /\ (GivenBase = Num(1000) /\ GivenMax = Num(5000)) =>
            /\ retryAttempt = Num(1) => (R.delayMs = Num(1000) /\ ~R.wasCapped)
            /\ retryAttempt = Num(2) => (R.delayMs = Num(2000) /\ ~R.wasCapped)
            /\ retryAttempt = Num(3) => (R.delayMs = Num(4000) /\ ~R.wasCapped)
            /\ retryAttempt = Num(4) => (R.delayMs = Num(5000) /\ R.wasCapped)

C1_Witness ==
    /\ Called
    /\ retryAttempt = Num(4)
    /\ GivenBase = Num(1000) /\ GivenMax = Num(5000)
    /\ options.jitterFactor = Zero
    /\ R.rawDelayMs = Num(8000) /\ R.delayMs = Num(5000) /\ R.wasCapped

(***************************************************************************)
(* C2.  For every configuration and every attempt value the delayMs of     *)
(* the returned result is >= 0.  Stated here for the finite attempts and   *)
(* jitterFactor = 0, where it already fails.                               *)
(***************************************************************************)
C2_DelayNonNegative ==
    (Called /\ IsFinite(retryAttempt) /\ options.jitterFactor = Zero)
    => Ge(R.delayMs, Zero)

(***************************************************************************)
(* C3.  For every integer attempt a <= 0 and jitterFactor = 0 the result   *)
(* is identical in every field to the result for attempt 1.                *)
(***************************************************************************)
C3_NonPositiveIsAttemptOne ==
    (/\ Called
     /\ IntegerAttempt /\ Le(retryAttempt, Zero)
     /\ options.jitterFactor = Zero)
    => R = ResultFor(Num(1))

C3_Witness ==
    /\ Called
    /\ retryAttempt = Num(-1)
    /\ options.jitterFactor = Zero
    /\ GivenBase = Num(100)
    /\ R.retryAttempt = Num(1) /\ R.rawDelayMs = Num(100)

(***************************************************************************)
(* C4.  As claimed: for every fractional attempt, whatever its magnitude,  *)
(* and jitterFactor = 0 the result is identical to the result for          *)
(* attempt 1.  Stated here for positive baseDelayMs and maxDelayMs, where  *)
(* it already fails.                                                       *)
(***************************************************************************)
C4_FractionalIsAttemptOne ==
    (/\ Called
     /\ FractionalAttempt
     /\ Gt(GivenBase, Zero) /\ Gt(GivenMax, Zero)
     /\ options.jitterFactor = Zero)
    => R = ResultFor(Num(1))

(***************************************************************************)
(* C4, amended.  For every fractional attempt a and jitterFactor = 0 the   *)
(* result is identical to the result for attempt max(1, floor(a)): it is   *)
(* the result for attempt 1 when a < 2, and the result for the integer     *)
(* part of a when a > 2.                                                   *)
(***************************************************************************)
C4_FractionalIsFloor ==
    (/\ Called
     /\ FractionalAttempt
     /\ options.jitterFactor = Zero)
    => /\ R = ResultFor(Num(MaxInt(1, FloorInt(retryAttempt))))
       /\ Lt(retryAttempt, Num(2)) => R = ResultFor(Num(1))

C4_Witness ==
    /\ Called
    /\ retryAttempt = Rat(5, 2)
    /\ options.jitterFactor = Zero
    /\ GivenBase = Num(100)
    /\ R.retryAttempt = Num(2) /\ R.rawDelayMs = Num(200)
    /\ R # ResultFor(Num(1))

(***************************************************************************)
(* C5.  For every attempt input the retryAttempt of the result is          *)
(* max(1, floor(attempt)) and is therefore always >= 1.                    *)
(***************************************************************************)
C5_RetryAttemptAtLeastOne ==
    Called =>
        /\ Ge(R.retryAttempt, Num(1))
        /\ IsFinite(retryAttempt) =>
               R.retryAttempt = Num(MaxInt(1, FloorInt(retryAttempt)))

(***************************************************************************)
(* C6.  For every attempt and configuration cappedDelayMs is               *)
(* min(rawDelayMs, maxDelayMs), rawDelayMs being                           *)
(* baseDelayMs * 2^(retryAttempt-1), hence cappedDelayMs <= maxDelayMs     *)
(* always.  Stated here for the finite attempts.                           *)
(***************************************************************************)
C6_CappedIsMin ==
    (Called /\ IsFinite(retryAttempt)) =>
        /\ R.cappedDelayMs \in {R.rawDelayMs, GivenMax}
        /\ Le(R.cappedDelayMs, R.rawDelayMs)
        /\ Le(R.cappedDelayMs, GivenMax)

(***************************************************************************)
(* C7.  In every result wasCapped is true if and only if                   *)
(* rawDelayMs > cappedDelayMs; when the raw delay equals maxDelayMs        *)
(* exactly, wasCapped is false.                                            *)
(***************************************************************************)
C7_WasCappedIffRawAboveCapped ==
    Called =>
        /\ R.wasCapped <=> Gt(R.rawDelayMs, R.cappedDelayMs)
        /\ R.rawDelayMs = GivenMax => ~R.wasCapped

C7_Witness ==
    /\ Called
    /\ retryAttempt = Num(1)
    /\ GivenBase = Num(1000) /\ GivenMax = Num(1000)
    /\ R.rawDelayMs = GivenMax
    /\ ~R.wasCapped

(***************************************************************************)
(* C8.  As claimed: with jitterFactor = f > 0 and any draw u in [0,1),     *)
(* jitterOffsetMs = (2u-1) * cappedDelayMs * f and delayMs lies within     *)
(* [max(0, capped*(1-f)), capped*(1+f)].                                   *)
(***************************************************************************)
JitterBounds(capped, f, delay) ==
    /\ Le(RealMax(Zero, RealMul(capped, RealAdd(Num(1), Neg(f)))), delay)
    /\ Le(delay, RealMul(capped, RealAdd(Num(1), f)))

ExactOffset(u, capped, f) ==
    RealMul(RealMul(RealAdd(RealMul(Num(2), u), Num(-1)), capped), f)

C9_NoJitterWhenFactorNotPositive ==
    (Called /\ Le(GivenJitter, Zero)) =>
        /\ last.randomCalls = 0
        /\ last.random = Undefined
        /\ R.jitterOffsetMs = Zero
        /\ last.finalDelayMs = R.cappedDelayMs

C9_Witness ==
    /\ Called
    /\ GivenJitter = Rat(-1, 4)
    /\ retryAttempt = Num(2)
    /\ last.randomCalls = 0
    /\ R.jitterOffsetMs = Zero
    /\ last.finalDelayMs = R.cappedDelayMs

(***************************************************************************)
(* C10.  Two calls with the same attempt and the same configuration with   *)
(* jitterFactor = 0 return results equal in every field, whatever calls    *)
(* were made in between.                                                   *)
(***************************************************************************)
C10_Deterministic ==
    (saved.made /\ last.made /\ options.jitterFactor = Zero) =>
        saved.result = last.result

C10_Witness ==
    /\ order = "again"
    /\ options.jitterFactor = Zero
    /\ retryAttempt = Num(3)
    /\ saved.result = last.result
    /\ last.result.delayMs = Num(4000)

(***************************************************************************)
(* C11.  calculateExponentialBackoff never fails: for every attempt        *)
(* (negative, zero, positive, fractional, very large, not a number) and    *)
(* every configuration, maxDelayMs < baseDelayMs and jitterFactor outside  *)
(* [0, 1] included, the call raises no error and returns a BackoffResult:  *)
(* five numbers and a boolean.                                             *)
(***************************************************************************)
IsNumber(x) == x.k \in {"fin", "nan", "inf", "ninf"}

IsBackoffResult(r) ==
    /\ DOMAIN r = {"delayMs", "rawDelayMs", "cappedDelayMs", "jitterOffsetMs",
                   "wasCapped", "retryAttempt"}
    /\ IsNumber(r.delayMs) /\ IsNumber(r.rawDelayMs) /\ IsNumber(r.cappedDelayMs)
    /\ IsNumber(r.jitterOffsetMs) /\ IsNumber(r.retryAttempt)
    /\ r.wasCapped \in BOOLEAN

RawExceedsBy(a) ==
    \E a0 \in (1 .. MaxAttempt) \cup {a} :
        a0 <= a /\ CmpFin(ExactRaw(GivenBase, a0), GivenMax) > 0

CappedCase ==
    /\ Called
    /\ IntegerAttempt /\ Ge(retryAttempt, Num(1))
    /\ options.jitterFactor = Zero
    /\ Gt(GivenBase, Zero)
    /\ RawExceedsBy(IntOf(retryAttempt))

C12_CappedAtMaxAlways ==
    CappedCase => (R.delayMs = GivenMax /\ R.wasCapped)

(***************************************************************************)
(* C12, amended.  With jitterFactor = 0, positive baseDelayMs and          *)
(* maxDelayMs >= 0, once the raw delay of an attempt exceeds maxDelayMs,   *)
(* that attempt and every larger one (20 with max 5000, 100 with max 50,   *)
(* 1025 where the raw value is Infinity) returns delayMs = maxDelayMs with *)
(* wasCapped = true; with a negative maxDelayMs delayMs is 0, wasCapped    *)
(* still true.                                                             *)
(***************************************************************************)
C12_CappedAtMax ==
    CappedCase =>
        /\ R.wasCapped
        /\ R.cappedDelayMs = GivenMax
        /\ R.delayMs = (IF Ge(GivenMax, Zero) THEN GivenMax ELSE Zero)

C12_Witness ==
    /\ Called
    /\ retryAttempt = Num(100)
    /\ options.jitterFactor = Zero
    /\ GivenBase = Num(100) /\ GivenMax = Num(50)
    /\ R.delayMs = Num(50) /\ R.wasCapped

(***************************************************************************)
(* C13.  After any series of waitForNextRetry, previewNextDelay and reset  *)
(* calls, attemptCount is the number of waitForNextRetry calls made since  *)
(* the construction or the latest reset, and the k-th of these calls       *)
(* returns retryAttempt = k: a fresh manager yields 1, 2, 3 and after a    *)
(* reset 1 again.                                                          *)
(***************************************************************************)
C13_CountsWaitsSinceReset ==
    /\ attemptCount = sinceReset
    /\ \A i \in DOMAIN waits :
           waits[i].backoffResult.retryAttempt = Num(waits[i].number)
    /\ returned.made => returned.value.retryAttempt = Num(returned.number)

\* The second call after a reset returns 2 while the third call made before
\* the reset is still suspended.
C13_Witness ==
    /\ returned.made
    /\ returned.number = 2 /\ returned.value.retryAttempt = Num(2)
    /\ attemptCount = 2
    /\ Len(waits) = 1
    /\ waits[1].number = 3 /\ waits[1].backoffResult.retryAttempt = Num(3)

(***************************************************************************)
(* C14.  waitForNextRetry suspends its caller for the computed delay: it   *)
(* does not return before delayMs of the result computed at the call has   *)
(* elapsed, it can return once that delay has elapsed, and it returns that *)
(* same result.                                                            *)
(***************************************************************************)
C14_SuspendsForDelay ==
    /\ \A i \in DOMAIN waits :
           /\ waits[i].backoffResult = waits[i].call.result
           /\ Ge(waits[i].elapsed, waits[i].backoffResult.delayMs)
                  <=> ENABLED WaitReturns(i)
    /\ returned.made =>
           /\ Ge(returned.waited, returned.backoffResult.delayMs)
           /\ returned.value = returned.backoffResult

\* A call with a positive jitter offset has returned after 1.5 times the
\* time a call without would.
C14_Witness ==
    /\ returned.made
    /\ GivenJitter = Rat(1, 4)
    /\ Gt(returned.value.jitterOffsetMs, Zero)
    /\ Gt(returned.value.delayMs, returned.value.cappedDelayMs)
    /\ returned.waited = returned.value.delayMs

(***************************************************************************)
(* C15.  As claimed: when waitForNextRetry is invoked again while an       *)
(* earlier invocation is still suspended, the counter is not incremented   *)
(* again and the delay is not computed again.                              *)
(***************************************************************************)
C15_NoIncrementWhileSuspended ==
    \A i \in DOMAIN waits :
        waits[i].overlapped =>
            /\ waits[i].countAfter = waits[i].countBefore
            /\ ~waits[i].call.made

(***************************************************************************)
(* C15, amended.  Every invocation of waitForNextRetry increments the      *)
(* counter by one and computes the delay for the new count, also when an   *)
(* earlier invocation is still suspended: two overlapping invocations on a *)
(* fresh manager leave the counter at 2 and wait for the delays of         *)
(* attempts 1 and 2.                                                       *)
(***************************************************************************)
C15_IncrementsOnEveryCall ==
    \A i \in DOMAIN waits :
        /\ waits[i].countAfter = waits[i].countBefore + 1
        /\ waits[i].call.made
        /\ waits[i].backoffResult =
               CalculateExponentialBackoff(Num(waits[i].countBefore + 1),
                                           ManagerOptions(options), Zero).result

C15_Witness ==
    /\ Len(waits) = 2
    /\ ~waits[1].overlapped /\ waits[2].overlapped
    /\ waits[1].backoffResult.retryAttempt = Num(1)
    /\ waits[2].backoffResult.retryAttempt = Num(2)
    /\ attemptCount = 2

(***************************************************************************)
(* C16.  previewNextDelay never changes attemptCount, in any state and     *)
(* however often it is called, and returns the calculation for attempt     *)
(* attemptCount + 1 with the configuration of the manager.                 *)
(***************************************************************************)
C16_PreviewLeavesCount ==
    /\ [][preview'.made => attemptCount' = attemptCount]_vars
    /\ [](preview.made =>
            /\ preview.countAfter = preview.countBefore
            /\ attemptCount = preview.countBefore
            /\ preview.call.result =
                   CalculateExponentialBackoff(Num(attemptCount + 1),
                                               ManagerOptions(options), Zero).result)

\* A preview made after two calls, the second still suspended.
C16_Witness ==
    /\ preview.made
    /\ attemptCount = 2
    /\ waits # <<>>
    /\ preview.call.result.retryAttempt = Num(3)
    /\ GivenBase = Num(100) /\ GivenMax = Num(5000)
    /\ preview.call.result.delayMs = Num(400)

(***************************************************************************)
(* C17.  Cancellation: when the subscriber to an observable returned by    *)
(* create unsubscribes before the delay has elapsed, it is delivered       *)
(* nothing at any later time, the subscription is closed and the timer is  *)
(* released, with emitDelay false and with emitDelay true.                 *)
(***************************************************************************)
C17_CancelledStaysSilent ==
    subscription.cancelled =>
        /\ subscription.state = "closed"
        /\ ~subscription.timerRunning
        /\ ~subscription.completed
        /\ Len(received) = subscription.receivedAtCancel
        /\ Len(received) = (IF created.emitDelay THEN 1 ELSE 0)

\* With emitDelay: unsubscribed, and the time has passed the delay since.
C17_Witness ==
    /\ subscription.cancelled
    /\ created.emitDelay
    /\ Gt(subscription.elapsed, created.backoffResult.delayMs)
    /\ received = <<NextNotification(created.backoffResult.delayMs, Zero)>>

(***************************************************************************)
(* C18.  With emitDelay false the subscriber receives exactly one value,   *)
(* 0, not before delayMs as computed by create has elapsed since the       *)
(* subscription, then the completion, and nothing else.                    *)
(***************************************************************************)
DelayMsOfCreated == created.backoffResult.delayMs

\* The timer can run exactly when the delay has elapsed.
FiresOnceElapsed ==
    ENABLED TimerFires <=> Ge(subscription.elapsed, DelayMsOfCreated)

C18_OnlyZeroAfterDelay ==
    (created.made /\ ~created.emitDelay) =>
        /\ subscription.state = "none" => received = <<>>
        /\ subscription.state = "open" => (received = <<>> /\ FiresOnceElapsed)
        /\ subscription.cancelled => received = <<>>
        /\ subscription.completed =>
               /\ Len(received) = 2
               /\ received[1] = NextNotification(Zero, received[1].at)
               /\ Ge(received[1].at, DelayMsOfCreated)
               /\ received[2] = CompleteNotification(received[1].at)

\* With jitter: the 0 is received when delayMs, which is above the capped
\* delay, has elapsed.
C18_Witness ==
    /\ created.made /\ ~created.emitDelay
    /\ subscription.completed
    /\ Gt(DelayMsOfCreated, created.backoffResult.cappedDelayMs)
    /\ received = <<NextNotification(Zero, DelayMsOfCreated),
                    CompleteNotification(DelayMsOfCreated)>>

(***************************************************************************)
(* C19.  With emitDelay true the subscriber receives exactly two values:   *)
(* first, within the subscription, delayMs as computed by create, the      *)
(* value the timer then waits for, then 0 once that delay has elapsed,     *)
(* then the completion.                                                    *)
(***************************************************************************)
C19_DelayThenZero ==
    (created.made /\ created.emitDelay) =>
        /\ subscription.state = "none" => received = <<>>
        /\ subscription.state # "none" =>
               /\ Len(received) >= 1
               /\ received[1] = NextNotification(DelayMsOfCreated, Zero)
               /\ subscription.timerMs = received[1].value
        /\ subscription.state = "open" => (Len(received) = 1 /\ FiresOnceElapsed)
        /\ subscription.cancelled => Len(received) = 1
        /\ subscription.completed =>
               /\ Len(received) = 3
               /\ received[2] = NextNotification(Zero, received[2].at)
               /\ Ge(received[2].at, DelayMsOfCreated)
               /\ received[3] = CompleteNotification(received[2].at)

C19_Witness ==
    /\ created.made /\ created.emitDelay
    /\ subscription.completed
    /\ Lt(DelayMsOfCreated, created.backoffResult.cappedDelayMs)
    /\ received = <<NextNotification(DelayMsOfCreated, Zero),
                    NextNotification(Zero, DelayMsOfCreated),
                    CompleteNotification(DelayMsOfCreated)>>

(***************************************************************************)
(* C20.  When the retried source fails in every subscription, then with    *)
(* the retry count N and a backoff delay function the source is subscribed *)
(* to exactly N + 1 times, the last error of the source is delivered to    *)
(* the consumer as it is, and no value is delivered.                       *)
(***************************************************************************)
C20_ExhaustedDeliversLastError ==
    retry.alwaysFails =>
        /\ retry.subscriptions <= retry.maxRetries + 1
        /\ retry.phase # "completed"
        /\ retry.phase # "errored" => delivered = <<>>
        /\ retry.phase = "errored" =>
               /\ retry.subscriptions = retry.maxRetries + 1
               /\ delivered = <<ErrorNotification(ErrorOf(retry.maxRetries + 1))>>
        /\ created.made => created.call.made /\ created.call.error = NoError

\* Count 2: three subscriptions, the error of the third delivered.
C20_Witness ==
    /\ retry.alwaysFails
    /\ retry.maxRetries = 2
    /\ retry.phase = "errored"
    /\ retry.subscriptions = 3
    /\ created.retryCount = Num(2)
    /\ delivered = <<ErrorNotification(ErrorOf(3))>>

(***************************************************************************)
(* C21.  With the retry count N and a backoff delay function, a source     *)
(* that fails in its first k subscriptions (k <= N) and succeeds then is   *)
(* subscribed to exactly k + 1 times, each subscription after the first    *)
(* being made only once the timer of the observable of that retry has run, *)
(* and the consumer is delivered the value and no error; with k = 0 no     *)
(* observable is made and the source is subscribed to once.                *)
(***************************************************************************)
\* The timer of the observable the delay function returned latest has run,
\* no sooner than its delay, and its 0 is what the operator received.
BackoffTimerHasFired ==
    /\ created.made
    /\ ~subscription.timerRunning
    /\ TimerElapsed(subscription.timerMs, subscription.elapsed)
    /\ received = <<NextNotification(Zero, subscription.elapsed)>>

C21_RetriesThenSucceeds ==
    (~retry.alwaysFails /\ retry.failures <= retry.maxRetries) =>
        /\ retry.subscriptions <= retry.failures + 1
        /\ retry.phase # "errored"
        /\ retry.phase # "completed" => delivered = <<>>
        /\ retry.phase = "completed" =>
               /\ retry.subscriptions = retry.failures + 1
               /\ delivered = <<ValueNotification(retry.failures + 1),
                                [kind |-> "complete", value |-> 0]>>
        /\ retry.failures = 0 => ~created.made
        /\ retry.subscriptions >= 2 /\ retry.phase \in {"source", "completed"} =>
               BackoffTimerHasFired

(***************************************************************************)
(* C22.  An error that is not to be retried ends the retries at once: in   *)
(* retryHttpWithStatusCodeLogic an error whose status is below 500 and is  *)
(* not 429, and in retryHttpRequestWithCustomLogic an error shouldRetry    *)
(* returns false for, is delivered to the consumer as it is, no backoff    *)
(* timer is made for it and the source is not subscribed to again; an      *)
(* error whose status is 500 or more, or 429 (or that shouldRetry          *)
(* accepts), is retried while the count allows: a timer is made for the    *)
(* retry and the source is subscribed to again when it has run.            *)
(***************************************************************************)
\* The error of the subscription now open is one the claim says is not
\* retried.
C22_NotRetryable ==
    LET status == retry.statuses[retry.subscriptions]
    IN  IF retry.service = "retryHttpWithStatusCodeLogic"
        THEN status # Undefined /\ Lt(status, Num(500)) /\ status # Num(429)
        ELSE /\ retry.shouldRetry # "undefined"
             /\ ~ShouldRetry(retry.shouldRetry, HttpCurrentError)

\* ... is one the claim says is retried.
C22_Retryable ==
    LET status == retry.statuses[retry.subscriptions]
    IN  IF retry.service = "retryHttpWithStatusCodeLogic"
        THEN status # Undefined /\ (Ge(status, Num(500)) \/ status = Num(429))
        ELSE /\ retry.shouldRetry # "undefined"
             /\ ShouldRetry(retry.shouldRetry, HttpCurrentError)

C22_NonRetryableAborts ==
    [][/\ (retry.phase = "source" /\ retry.subscriptions <= Len(retry.statuses)
              /\ retry.soFar < retry.maxRetries) =>
           /\ C22_NotRetryable =>
                  /\ delivered' = Append(delivered, ErrorNotification(HttpCurrentError))
                  /\ UNCHANGED <<created, subscription, received>>
                  /\ retry'.phase = "errored"
                  /\ retry'.subscriptions = retry.subscriptions
           /\ C22_Retryable =>
                  /\ delivered' = delivered
                  /\ created'.made
                  /\ created'.retryCount = Num(retry.soFar + 1)
                  /\ subscription'.state = "open" /\ subscription'.timerRunning
                  /\ retry'.phase = "waiting"
       /\ retry.phase = "waiting" /\ retry'.phase # "waiting" =>
              /\ TimerElapsed(subscription.timerMs, subscription.elapsed)
              /\ retry'.phase = "source"
              /\ retry'.subscriptions = retry.subscriptions + 1
       /\ retry.phase = "errored" => retry'.subscriptions = retry.subscriptions
      ]_vars

\* A 500 retried once, then a 499: delivered as raised in the second
\* subscription, the only timer being that of the first retry.
C22_Witness ==
    /\ retry.service = "retryHttpWithStatusCodeLogic"
    /\ retry.maxRetries = 3
    /\ retry.statuses = <<Num(500), Num(499)>>
    /\ retry.phase = "errored"
    /\ retry.subscriptions = 2
    /\ created.retryCount = Num(1)
    /\ delivered = <<ErrorNotification(HttpErrorOf(Num(499), 2))>>

(***************************************************************************)
(* C23.  The function createBackoffDelayFunction returns keeps no state    *)
(* and ignores the error: called by retry with (error, retryCount) it      *)
(* returns a timer of the delay calculated for retryCount under the        *)
(* options given at its creation, so that with jitterFactor = 0 the i-th   *)
(* retry waits min(baseDelayMs * 2^(i-1), maxDelayMs), whatever the calls  *)
(* made before and whatever the error.                                     *)
(***************************************************************************)
\* The delay before jitter of retry i under the options given.
C23_CappedFor(i) == RealMin(ExactRaw(GivenBase, i), GivenMax)

\* The number retry gave the delay function in its latest call: the errors
\* counted so far, less the one that passed the count.
C23_LatestRetry == IF retry.phase = "errored" THEN retry.soFar - 1 ELSE retry.soFar

C23_DelayFunctionStateless ==
    created.made =>
        /\ C23_LatestRetry >= 1
        /\ created.retryCount = Num(C23_LatestRetry)
        /\ created.backoffResult.retryAttempt = Num(C23_LatestRetry)
        /\ created.backoffResult.cappedDelayMs = C23_CappedFor(C23_LatestRetry)
        /\ subscription.timerMs = created.backoffResult.delayMs
        /\ options.jitterFactor = Zero =>
               created.backoffResult.delayMs = C23_CappedFor(C23_LatestRetry)
        /\ Gt(GivenJitter, Zero) =>
               created.backoffResult.delayMs =
                   RealAdd(C23_CappedFor(C23_LatestRetry),
                           ExactOffset(created.call.random,
                                       C23_CappedFor(C23_LatestRetry), GivenJitter))

\* The third retry, after the errors of three subscriptions: 150 of
\* min(400, 150).
C23_Witness ==
    /\ created.made
    /\ options.jitterFactor = Zero
    /\ GivenBase = Num(100) /\ GivenMax = Num(150)
    /\ retry.soFar = 3
    /\ retry.phase = "waiting"
    /\ subscription.timerMs = Num(150)

(***************************************************************************)
(* C24.  create(retryCount, overrideOptions) computes with the value of    *)
(* the override for every field the override has (a field given as         *)
(* undefined counts: it hides the configured value and the calculation     *)
(* falls back on its own default) and with the configured value of the     *)
(* factory for every other field, and it leaves the configuration of the   *)
(* factory as it is: getOptions() returns the same values before and       *)
(* after any number of calls of create with overrides.                     *)
(***************************************************************************)
\* The configured value of a field: what the constructor was given, or the
\* documented default.
C24_Configured(f) ==
    CASE f = "baseDelayMs" -> GivenBase
      [] f = "maxDelayMs" -> GivenMax
      [] f = "jitterFactor" -> GivenJitter
      [] OTHER -> (f \in DOMAIN options /\ options[f])

\* The value the latest call of create is to compute with.
C24_Used(f) ==
    IF f \in DOMAIN created.overrideOptions
    THEN created.overrideOptions[f]
    ELSE C24_Configured(f)

\* The delay before jitter of the latest call of create.
C24_Capped ==
    RealMin(ExactRaw(OrDefault(C24_Used("baseDelayMs"), Num(1000)),
                     IntOf(created.retryCount)),
            OrDefault(C24_Used("maxDelayMs"), Num(5000)))

C28_SignedOffset(offset) ==
    (IF Gt(offset, Zero) THEN "+"
     ELSE IF Lt(MathRound(offset), Zero) THEN "-" ELSE "")
        \o NumberToString(MathAbs(MathRound(offset)))

C28_ToStringDescribes ==
    text.made =>
        /\ text.value =
               "Retry " \o NumberToString(text.result.retryAttempt)
                   \o ": " \o NumberToString(text.result.delayMs)
                   \o "ms (raw: " \o NumberToString(text.result.rawDelayMs) \o "ms"
                   \o (IF text.result.wasCapped THEN ", capped" ELSE "")
                   \o (IF text.result.jitterOffsetMs = Zero
                       THEN ", no jitter"
                       ELSE ", jitter: " \o C28_SignedOffset(text.result.jitterOffsetMs)
                                \o "ms")
                   \o ")"
        /\ (/\ text.result = last.result
            /\ options.jitterFactor = Zero /\ options.baseDelayMs = Num(100)
            /\ options.maxDelayMs = Undefined /\ retryAttempt = Num(3)) =>
               text.value = "Retry 3: 400ms (raw: 400ms, no jitter)"

C28_Witness ==
    /\ text.made
    /\ options.jitterFactor = Zero /\ options.baseDelayMs = Num(100)
    /\ retryAttempt = Num(3)
    /\ text.value = "Retry 3: 400ms (raw: 400ms, no jitter)"

(***************************************************************************)
(* C25.  With enableDebugLogs true every call of create writes exactly one *)
(* debug line, within the call and whether or not the observable is ever   *)
(* subscribed to, and the line has the description of the result; with     *)
(* enableDebugLogs false no line is written, by create or by a             *)
(* subscription.                                                           *)
(***************************************************************************)
C25_OneDebugLinePerCreate ==
    created.made =>
        IF C24_Used("enableDebugLogs")
        THEN created.logged =
                 <<"[exponential-backoff-timer] "
                       \o BackoffResultToString(created.backoffResult)>>
        ELSE created.logged = <<>>

\* create(3) on a factory with debug logs and no jitter, never subscribed
\* to: the one line of its result.
C25_Witness ==
    /\ created.made
    /\ "enableDebugLogs" \in DOMAIN options /\ options.enableDebugLogs
    /\ created.overrideOptions = NoOverride
    /\ subscription.state = "none"
    /\ created.logged =
           <<"[exponential-backoff-timer] Retry 3: 150ms (raw: 400ms, capped, no jitter)">>

(***************************************************************************)
(* C26.  What getOptions() of a factory and the options getter of a        *)
(* manager return is a read-only snapshot of the configuration: every read *)
(* returns a new frozen object with the configured values, a write to a    *)
(* field of it is refused, and nothing done to it changes the              *)
(* configuration the later calls of create, waitForNextRetry and           *)
(* previewNextDelay compute with.                                          *)
(***************************************************************************)
\* The fields of the configuration of the object.
C26_Fields ==
    IF config.owner = "BackoffTimerFactory"
    THEN {"baseDelayMs", "maxDelayMs", "jitterFactor", "emitDelay", "enableDebugLogs"}
    ELSE {"baseDelayMs", "maxDelayMs", "jitterFactor"}

\* The delay before jitter of attempt n under the configuration given to
\* the constructor.
C26_CappedFor(n) == RealMin(ExactRaw(GivenBase, n), GivenMax)

C26_ReadOnlySnapshot ==
    /\ \A i \in DOMAIN copies :
           /\ copies[i].frozen
           /\ copies[i].id # 0
           /\ \A j \in DOMAIN copies : j # i => copies[j].id # copies[i].id
           /\ copies[i].value = [f \in C26_Fields |-> C24_Configured(f)]
           /\ copies[i].written \in {"none", "refused"}
    /\ config.owner = "RetryManager" =>
           /\ \A w \in DOMAIN waits :
                  waits[w].backoffResult.cappedDelayMs = C26_CappedFor(waits[w].countAfter)
           /\ preview.made =>
                  preview.call.result.cappedDelayMs = C26_CappedFor(preview.countBefore + 1)
    /\ (config.owner = "BackoffTimerFactory" /\ created.made) =>
           created.backoffResult.cappedDelayMs = C24_Capped

\* A manager of base 100 and maximum 150 read twice, the first object
\* written to in vain, and waiting for its second retry: 150 of
\* min(200, 150).
C26_Witness ==
    /\ config.owner = "RetryManager"
    /\ options.baseDelayMs = Num(100) /\ options.maxDelayMs = Num(150)
    /\ Len(copies) = 2
    /\ copies[1].written = "refused"
    /\ copies[1].value.baseDelayMs = Num(100)
    /\ Len(waits) = 2
    /\ waits[2].backoffResult.cappedDelayMs = Num(150)

(***************************************************************************)
(* C27.  Every field of the configuration that is not given takes its      *)
(* default (baseDelayMs 1000, maxDelayMs 5000, jitterFactor 0.2, emitDelay *)
(* false, enableDebugLogs false) and every field given keeps the value     *)
(* given, whichever fields are given, in a BackoffTimerFactory and a       *)
(* RetryManager, as their configuration reads, and in                      *)
(* calculateExponentialBackoff, as its result shows.                       *)
(***************************************************************************)
\* The field as the claim has it: the value given, else the default.
C27_Expected(f) ==
    CASE f = "baseDelayMs" ->
             IF options.baseDelayMs = Undefined THEN Num(1000) ELSE options.baseDelayMs
      [] f = "maxDelayMs" ->
             IF options.maxDelayMs = Undefined THEN Num(5000) ELSE options.maxDelayMs
      [] f = "jitterFactor" ->
             IF options.jitterFactor = Undefined THEN Rat(1, 5) ELSE options.jitterFactor
      [] OTHER -> IF f \in DOMAIN options THEN options[f] ELSE FALSE

C27_DefaultsForMissing ==
    /\ \A i \in DOMAIN copies :
           /\ DOMAIN copies[i].value = C26_Fields
           /\ \A f \in C26_Fields : copies[i].value[f] = C27_Expected(f)
    /\ (config.owner = "calculateExponentialBackoff" /\ last.made) =>
           /\ R.rawDelayMs = ExactRaw(C27_Expected("baseDelayMs"), IntOf(retryAttempt))
           /\ R.cappedDelayMs = RealMin(R.rawDelayMs, C27_Expected("maxDelayMs"))
           /\ R.jitterOffsetMs =
                  IF Gt(C27_Expected("jitterFactor"), Zero)
                  THEN ExactOffset(last.random, R.cappedDelayMs,
                                   C27_Expected("jitterFactor"))
                  ELSE Zero

\* A factory given maxDelayMs 150, jitterFactor 0 and emitDelay only.
C27_Witness ==
    /\ config.owner = "BackoffTimerFactory"
    /\ options = [baseDelayMs |-> Undefined, maxDelayMs |-> Num(150),
                  jitterFactor |-> Zero, emitDelay |-> TRUE]
    /\ Len(copies) = 1
    /\ copies[1].value = [baseDelayMs |-> Num(1000), maxDelayMs |-> Num(150),
                          jitterFactor |-> Zero, emitDelay |-> TRUE,
                          enableDebugLogs |-> FALSE]

(***************************************************************************)
(* C29.  The cap is applied before the jitter, so the delay of every call  *)
(* stays bounded around the cap: delayMs <= maxDelayMs * (1 + jitterFactor)*)
(* for every attempt and every random draw.                                *)
(***************************************************************************)
C29_BoundedAroundCap ==
    Called => Le(R.delayMs, RealMul(GivenMax, RealAdd(Num(1), GivenJitter)))

(***************************************************************************)
(* C30.  Attempt 1 has rawDelayMs = baseDelayMs and each next attempt has  *)
(* twice the raw delay of the attempt before it; and with jitterFactor = 0 *)
(* and positive baseDelayMs and maxDelayMs the delay of an attempt is not  *)
(* below the delay of the attempt before it.                               *)
(***************************************************************************)
\* The result for the attempt before this one.
C30_Before == ResultFor(Add(retryAttempt, Num(-1)))

C30_RawDoubles ==
    (Called /\ IsFinite(retryAttempt) /\ IntegerAttempt) =>
        /\ retryAttempt = Num(1) => R.rawDelayMs = GivenBase
        /\ Gt(retryAttempt, Num(1)) =>
               /\ R.rawDelayMs = Mul(Num(2), C30_Before.rawDelayMs)
               /\ (/\ options.jitterFactor = Zero
                   /\ Gt(GivenBase, Zero) /\ Gt(GivenMax, Zero))
                  => Ge(R.delayMs, C30_Before.delayMs)

(***************************************************************************)
(* C31.  As claimed: in retryHttpWithStatusCodeLogic, for the same retry   *)
(* count, the delay scheduled after a 429 error is longer than the delay   *)
(* scheduled after a 5xx error.                                            *)
(***************************************************************************)
\* The first call was for a 429 and the second for a 5xx, or the reverse.
C31_RateLimitedCall ==
    CHOOSE i \in 1 .. 2 : retry.calls[i].status = Num(429)

C31_ServerErrorCall ==
    CHOOSE i \in 1 .. 2 : retry.calls[i].status = Num(500)

C31_BothScheduled ==
    /\ retry.phase = "delay"
    /\ Len(retry.calls) = 2
    /\ {retry.calls[1].status, retry.calls[2].status} = {Num(429), Num(500)}

C32_ClampChangesNothing ==
    (/\ Called
     /\ Ge(GivenJitter, Zero) /\ Le(GivenJitter, Num(1))
     /\ Gt(GivenBase, Zero) /\ Gt(GivenMax, Zero))
    => /\ R.delayMs = Add(R.cappedDelayMs, R.jitterOffsetMs)
       /\ R.delayMs = last.finalDelayMs

\* jitterFactor 1 and the lowest draw: the sum is 0, and 0 is the delay.
C32_Witness ==
    /\ Called
    /\ retryAttempt = Num(3)
    /\ GivenBase = Num(100) /\ GivenMax = Num(1000) /\ GivenJitter = Num(1)
    /\ R.cappedDelayMs = Num(400) /\ R.jitterOffsetMs = Num(-400)
    /\ R.delayMs = Zero

(***************************************************************************)
(* C33.  The delay, its jitter draw included, is computed once, when       *)
(* create is called, and not at the subscription: every subscription to    *)
(* the observable returned sets a timer of the same delayMs, which runs    *)
(* from that subscription, so that no completion comes sooner than delayMs *)
(* after its own subscription; and with emitDelay every subscription       *)
(* receives the same delay first.                                          *)
(***************************************************************************)
\* What a subscription that set a timer of timerMs has received.
C33_SameDelay(timerMs, notifications) ==
    /\ timerMs = created.backoffResult.delayMs
    /\ created.emitDelay =>
           /\ notifications # <<>>
           /\ notifications[1] =
                  [kind |-> "next", value |-> created.backoffResult.delayMs, at |-> Zero]
    /\ \A i \in DOMAIN notifications :
           notifications[i].kind = "complete" => Ge(notifications[i].at, timerMs)

C33_ComputedAtCreate ==
    (created.made /\ subscription.state # "none") =>
        /\ C33_SameDelay(subscription.timerMs, received)
        /\ \A i \in DOMAIN earlier :
               C33_SameDelay(earlier[i].timerMs, earlier[i].received)

\* Two subscriptions to a jittered observable that emits its delay, both
\* completed, the random generator having moved on since create.
C33_Witness ==
    /\ created.made
    /\ created.emitDelay
    /\ created.call.randomCalls = 1
    /\ created.call.random # rng
    /\ Len(earlier) = 1
    /\ Len(earlier[1].received) = 3
    /\ subscription.completed
    /\ received = earlier[1].received

(***************************************************************************)
(* C34.  For a RetryManager with jitterFactor = 0, in every state, the     *)
(* result of previewNextDelay equals, field by field, the result the next  *)
(* waitForNextRetry returns when no reset and no other wait happens in     *)
(* between: a wait called right after a preview computes the result the    *)
(* preview returned; between resets and waits nothing changes the counter  *)
(* or the configuration the preview reads; every wait computes what        *)
(* previewNextDelay computes in the state the wait was called in; and a    *)
(* wait returns the result it computed.                                    *)
(***************************************************************************)
\* What previewNextDelay returns with the counter at count.
C34_PreviewAt(count) ==
    CalculateExponentialBackoff(Num(PreviewAttempt(count)), config.value, rng).result

C34_PreviewIsNextWait ==
    /\ [][/\ (preview.made /\ Len(waits') = Len(waits) + 1) =>
                 waits'[Len(waits')].backoffResult = preview.call.result
          /\ (sinceReset' = sinceReset) =>
                 (attemptCount' = attemptCount /\ config' = config)
          /\ returned'.made =>
                 \E i \in DOMAIN waits : returned'.value = waits[i].backoffResult]_vars
    /\ [](options.jitterFactor = Zero =>
            \A i \in DOMAIN waits :
                waits[i].backoffResult = C34_PreviewAt(waits[i].countBefore))

\* The second wait since the reset, suspended: what a preview before it
\* returned, 200 ms for attempt 2.
C34_Witness ==
    /\ options.jitterFactor = Zero
    /\ GivenBase = Num(100) /\ GivenMax = Num(5000)
    /\ Len(waits) = 1
    /\ waits[1].countBefore = 1
    /\ waits[1].backoffResult = C34_PreviewAt(1)
    /\ waits[1].backoffResult.retryAttempt = Num(2)
    /\ waits[1].backoffResult.delayMs = Num(200)

(***************************************************************************)
(* C35.  The counter is written only when waitForNextRetry is called,      *)
(* never when its wait completes: a reset called while an invocation is    *)
(* suspended leaves the invocation as it is, the invocation still returns  *)
(* the result computed at its call (the retryAttempt and delayMs of then), *)
(* the counter is after the return what it was before it, 0 after the      *)
(* reset, and the next waitForNextRetry has retryAttempt 1.                *)
(***************************************************************************)
\* The result a suspended invocation computed at its call.
C35_ComputedAtCall(wait) ==
    CalculateExponentialBackoff(Num(wait.countAfter), ManagerOptions(options), Zero).result

C35_CounterWrittenAtCallOnly ==
    /\ [][/\ returned'.made =>
                 /\ attemptCount' = attemptCount
                 /\ \E i \in DOMAIN waits :
                        /\ returned'.value = C35_ComputedAtCall(waits[i])
                        /\ returned'.value.retryAttempt = Num(waits[i].countAfter)
          /\ (sinceReset > 0 /\ sinceReset' = 0) =>
                 (attemptCount' = 0 /\ waits' = waits)
          /\ (attemptCount = 0 /\ Len(waits') = Len(waits) + 1) =>
                 /\ attemptCount' = 1
                 /\ waits'[Len(waits')].backoffResult.retryAttempt = Num(1)]_vars
    /\ [](\A i \in DOMAIN waits : waits[i].backoffResult = C35_ComputedAtCall(waits[i]))

\* The second invocation returned after a reset made while it was
\* suspended: attempt 2 and 200 ms, and the counter is 0.
C35_Witness ==
    /\ returned.made
    /\ returned.number = 2
    /\ sinceReset = 0
    /\ attemptCount = 0
    /\ GivenBase = Num(100) /\ GivenMax = Num(5000)
    /\ returned.value.retryAttempt = Num(2)
    /\ returned.value.delayMs = Num(200)
    /\ returned.waited = Num(200)

====
